---- MODULE Spec2Model ----
(***************************************************************************)
(* Model of the tool handlers of JobsucheMcpServer (jobsuche-mcp-server,   *)
(* src/lib.rs): search_jobs, get_job_details, search_jobs_with_details and *)
(* batch_search_jobs, one invocation per behaviour.  The upstream job      *)
(* search API is the environment: every upstream call either fails or      *)
(* answers from the catalogue fixed for the invocation.  A handler is cut  *)
(* at its await points: an action runs from one upstream call to the next. *)
(***************************************************************************)
EXTENDS Integers, Sequences, FiniteSets, TLC

VARIABLES
    process,            \* the server process: environment, startup phase, client, start time
    parked,             \* invocations in flight that are not running at the moment
    config,             \* JobsucheConfig held by the server (read-only)
    upstream,           \* what the upstream API answers during this invocation
    request,            \* the tool invocation: [op, params]
    pc,                 \* position of the handler
    call,               \* the upstream call awaited, None when there is none
    calls,              \* history of the upstream calls issued so far
    item,               \* batch_search_jobs: index of the search_item processed
    idx,                \* index of the job whose details are fetched
    search_result,      \* Option<SearchJobsResult> of the last successful search
    jobs_with_details,  \* Vec<GetJobDetailsResult> being collected
    results,            \* batch_search_jobs: Vec<BatchSearchItemResult>
    outcome             \* None while running, then Some(Ok(..)) or Some(Err(..))

vars == <<process, parked, config, upstream, request, pc, call, calls, item, idx,
          search_result, jobs_with_details, results, outcome>>

(***************************************************************************)
(* Option<T>: None is the empty sequence, Some(v) the one-element sequence. *)
(***************************************************************************)
None == <<>>

Some(v) == <<v>>

IsSome(o) == o # <<>>

UnwrapOr(o, d) == IF o = <<>> THEN d ELSE o[1]

Min(a, b) == IF a <= b THEN a ELSE b

\* Iterator::take(n) on a Vec
Take(s, n) == SubSeq(s, 1, Min(n, Len(s)))

\* anyhow::Result<T>
Ok(v) == [ok |-> TRUE, value |-> v]

Err(e) == [ok |-> FALSE, error |-> e]

(***************************************************************************)
(* Bounds of the model.                                                    *)
(***************************************************************************)
\* longest list of searches handed to batch_search_jobs
MaxBatch == 11

\* longest list of searches tried with every detail limit and every catalogue
MaxShortBatch == 3

\* longest result list the upstream answers a search with
MaxCatalogue == 21

\* most detail lookups that fail during an invocation on a long result list
MaxFailedLookups == 1

\* most invocations in flight on one server at the same time
MaxConcurrent == 2

(***************************************************************************)
(* Program constants.                                                      *)
(***************************************************************************)
MaxBatchSearches == 10

DefaultMaxDetails == 5

MaxDetailsCap == 20

BatchDefaultMaxDetails == 3

BatchMaxDetailsCap == 10

\* config.rs: default_page_size(), default_max_page_size(), the API's limit
DefaultPageSize == 25

DefaultMaxPageSize == 100

ApiPageSizeLimit == 100

\* get_server_status: the size of the probe search and the number of tools
ProbeSize == 1

ToolsCount == 5

(***************************************************************************)
(* Configurations JobsucheConfig::load can return.                         *)
(***************************************************************************)
Configs ==
    { [default_page_size |-> 25, max_page_size |-> 100],
      [default_page_size |-> 2,  max_page_size |-> 3] }

(***************************************************************************)
(* Upstream data.  A search record (one entry of stellenangebote) and the  *)
(* JobDetails of a reference number; the three postings differ in which    *)
(* optional attributes are present.                                        *)
(***************************************************************************)
Refs == {"r1", "r2", "r3"}

JobListing(refnr) ==
    CASE refnr = "r1" ->
           [refnr |-> "r1", titel |-> Some("Engineer"), beruf |-> "Informatiker",
            arbeitgeber |-> "ACME",
            arbeitsort |-> [ort |-> Some("Berlin"), plz |-> Some("10115")],
            aktuelle_veroeffentlichungsdatum |-> Some("2025-10-15"),
            externe_url |-> None]
      [] refnr = "r2" ->
           [refnr |-> "r2", titel |-> None, beruf |-> "Koch",
            arbeitgeber |-> "Gasthof",
            arbeitsort |-> [ort |-> Some("Bonn"), plz |-> None],
            aktuelle_veroeffentlichungsdatum |-> None,
            externe_url |-> Some("https://example.org/r2")]
      [] OTHER ->
           [refnr |-> refnr, titel |-> Some("Fahrer"), beruf |-> "Fahrer",
            arbeitgeber |-> "Spedition",
            arbeitsort |-> [ort |-> None, plz |-> None],
            aktuelle_veroeffentlichungsdatum |-> None,
            externe_url |-> None]

JobDetailsOf(refnr) ==
    CASE refnr = "r1" ->
           [titel |-> Some("Engineer"),
            stellenbeschreibung |-> Some("Build things"),
            arbeitgeber |-> Some("ACME"),
            arbeitsorte |-> << [adresse |-> Some([ort |-> Some("Berlin"), plz |-> Some("10115")])],
                               [adresse |-> Some([ort |-> Some("Bonn"), plz |-> None])] >>,
            eintrittszeitraum |-> Some([von |-> Some("2025-01-01"), bis |-> None]),
            veroeffentlichungszeitraum |-> Some([von |-> Some("2025-10-15"), bis |-> Some("2025-12-31")]),
            arbeitszeit_vollzeit |-> Some(TRUE),
            verguetung |-> Some("45.000 EUR"),
            vertragsdauer |-> Some("unbefristet"),
            stellenangebots_art |-> Some("arbeitsstelle"),
            allianzpartner_url |-> Some("https://example.org/partner"),
            erste_veroeffentlichungsdatum |-> Some("2025-10-01"),
            nur_fuer_schwerbehinderte |-> Some(FALSE),
            ist_geringfuegige_beschaeftigung |-> Some(FALSE),
            ist_arbeitnehmer_ueberlassung |-> Some(FALSE),
            ist_private_arbeitsvermittlung |-> Some(FALSE),
            quereinstieg_geeignet |-> Some(TRUE),
            chiffrenummer |-> None]
      [] refnr = "r2" ->
           [titel |-> None,
            stellenbeschreibung |-> Some("Cook things"),
            arbeitgeber |-> Some("Gasthof"),
            arbeitsorte |-> << [adresse |-> Some([ort |-> None, plz |-> Some("53111")])] >>,
            eintrittszeitraum |-> Some([von |-> None, bis |-> Some("2025-06-30")]),
            veroeffentlichungszeitraum |-> Some([von |-> None, bis |-> None]),
            arbeitszeit_vollzeit |-> Some(FALSE),
            verguetung |-> Some("12 EUR/h"),
            vertragsdauer |-> None,
            stellenangebots_art |-> None,
            allianzpartner_url |-> None,
            erste_veroeffentlichungsdatum |-> None,
            nur_fuer_schwerbehinderte |-> None,
            ist_geringfuegige_beschaeftigung |-> Some(TRUE),
            ist_arbeitnehmer_ueberlassung |-> None,
            ist_private_arbeitsvermittlung |-> None,
            quereinstieg_geeignet |-> None,
            chiffrenummer |-> Some("CH-7")]
      [] OTHER ->
           [titel |-> Some("Fahrer"),
            stellenbeschreibung |-> None,
            arbeitgeber |-> None,
            arbeitsorte |-> << >>,
            eintrittszeitraum |-> None,
            veroeffentlichungszeitraum |-> None,
            arbeitszeit_vollzeit |-> None,
            verguetung |-> None,
            vertragsdauer |-> None,
            stellenangebots_art |-> None,
            allianzpartner_url |-> None,
            erste_veroeffentlichungsdatum |-> None,
            nur_fuer_schwerbehinderte |-> None,
            ist_geringfuegige_beschaeftigung |-> None,
            ist_arbeitnehmer_ueberlassung |-> None,
            ist_private_arbeitsvermittlung |-> None,
            quereinstieg_geeignet |-> None,
            chiffrenummer |-> None]

\* JobSearchResponse of a successful upstream search
SearchResponse(refnrs, total) ==
    [stellenangebote |-> [k \in 1..Len(refnrs) |-> JobListing(refnrs[k])],
     max_ergebnisse |-> total,
     page |-> Some(1),
     size |-> Some(Len(refnrs))]

\* What the upstream can answer during one invocation: the response of a
\* successful search and the message of a failed call.
Catalogues ==
    { [response |-> SearchResponse(<< >>, Some(0)), error |-> "timeout"],
      [response |-> SearchResponse(<<"r1">>, None), error |-> "HTTP 500"],
      [response |-> SearchResponse(<<"r2", "r1">>, Some(2)), error |-> "timeout"],
      [response |-> SearchResponse(<<"r3", "r1", "r2">>, Some(40)), error |-> "HTTP 500"] }

(***************************************************************************)
(* JobsucheMcpServer::parse_employment_type.  A tag is the sequence of its *)
(* characters, so that to_lowercase works character by character as        *)
(* str::to_lowercase does on ASCII text.                                   *)
(***************************************************************************)
UpperCaseLetters ==
    <<"A", "B", "C", "D", "E", "F", "G", "H", "I", "J", "K", "L", "M", "N", "O", "P", "Q", "R", "S", "T", "U", "V", "W", "X", "Y", "Z">>

LowerCaseLetters ==
    <<"a", "b", "c", "d", "e", "f", "g", "h", "i", "j", "k", "l", "m", "n", "o", "p", "q", "r", "s", "t", "u", "v", "w", "x", "y", "z">>

\* char::to_lowercase
ToLowerChar(c) ==
    IF \E k \in 1..Len(UpperCaseLetters) : UpperCaseLetters[k] = c
    THEN LowerCaseLetters[CHOOSE k \in 1..Len(UpperCaseLetters) : UpperCaseLetters[k] = c]
    ELSE c

\* faulty variant: the tag compared as written
to_lowercase_skipped(s) == s

to_lowercase(s) == [k \in 1..Len(s) |-> ToLowerChar(s[k])]

parse_employment_type(emp_type) ==
    LET t == to_lowercase(emp_type) IN
    CASE t \in {<<"f", "u", "l", "l", "t", "i", "m", "e">>,
               <<"f", "u", "l", "l">>,
               <<"v", "o", "l", "l", "z", "e", "i", "t">>,
               <<"v", "z">>} -> Some("Vollzeit")
      [] t \in {<<"p", "a", "r", "t", "t", "i", "m", "e">>,
               <<"p", "a", "r", "t">>,
               <<"t", "e", "i", "l", "z", "e", "i", "t">>,
               <<"t", "z">>} -> Some("Teilzeit")
      [] t \in {<<"m", "i", "n", "i">>,
               <<"m", "i", "n", "i", "j", "o", "b">>,
               <<"m", "i", "n", "i", "_", "j", "o", "b">>} -> Some("Minijob")
      [] t \in {<<"h", "o", "m", "e">>,
               <<"h", "o", "m", "e", "o", "f", "f", "i", "c", "e">>,
               <<"h", "o", "m", "e", "_", "o", "f", "f", "i", "c", "e">>,
               <<"h", "o">>} -> Some("HeimTelearbeit")
      [] t \in {<<"s", "h", "i", "f", "t">>,
               <<"s", "c", "h", "i", "c", "h", "t">>,
               <<"s", "n", "w">>} -> Some("SchichtNachtarbeitWochenende")
      [] OTHER -> None

\* emp_types.iter().filter_map(parse_employment_type).collect()
RECURSIVE FilterMapEmploymentTypes(_)
FilterMapEmploymentTypes(tags) ==
    IF tags = << >> THEN << >>
    ELSE LET a == parse_employment_type(Head(tags)) IN
         (IF IsSome(a) THEN <<a[1]>> ELSE << >>) \o FilterMapEmploymentTypes(Tail(tags))

(***************************************************************************)
(* search_jobs: the SearchOptions built from SearchJobsParams.             *)
(***************************************************************************)
\* search_terms.join(" ")
RECURSIVE Join(_)
Join(terms) ==
    IF Len(terms) = 1 THEN terms[1]
    ELSE terms[1] \o " " \o Join(Tail(terms))

SearchTerms(params) ==
    params.job_title \o params.employer \o params.branch

\* faulty variant: the page size without the max_page_size cap
PageSizeUncapped(params, cfg) == UnwrapOr(params.page_size, cfg.default_page_size)

\* params.page_size.unwrap_or(default_page_size).min(max_page_size)
PageSize(params, cfg) ==
    Min(UnwrapOr(params.page_size, cfg.default_page_size), cfg.max_page_size)

\* faulty variant: the clause is sent even when no tag was recognised
ArbeitszeitClauseAlways(arbeitszeit) == Some(arbeitszeit)

\* if !arbeitszeit.is_empty() { builder.arbeitszeit(arbeitszeit) }
ArbeitszeitClause(arbeitszeit) ==
    IF arbeitszeit # << >> THEN Some(arbeitszeit) ELSE None

\* faulty variant: an absent radius is sent as the documented default of 25 km
BuildSearchOptionsDefaultRadius(params, cfg) ==
    LET search_terms == SearchTerms(params)
        arbeitszeit == IF IsSome(params.employment_type)
                       THEN FilterMapEmploymentTypes(params.employment_type[1])
                       ELSE << >>
    IN  [was |-> IF search_terms # << >> THEN Some(Join(search_terms)) ELSE None,
         wo |-> params.location,
         umkreis |-> Some(UnwrapOr(params.radius_km, 25)),
         arbeitszeit |-> ArbeitszeitClause(arbeitszeit),
         veroeffentlichtseit |-> params.published_since_days,
         size |-> Some(PageSize(params, cfg)),
         page |-> params.page]

\* faulty variant: the contract types are searched for as free text
BuildSearchOptionsContractTerms(params, cfg) ==
    LET search_terms == SearchTerms(params)
                          \o (IF IsSome(params.contract_type) THEN params.contract_type[1]
                              ELSE << >>)
        arbeitszeit == IF IsSome(params.employment_type)
                       THEN FilterMapEmploymentTypes(params.employment_type[1])
                       ELSE << >>
    IN  [was |-> IF search_terms # << >> THEN Some(Join(search_terms)) ELSE None,
         wo |-> params.location,
         umkreis |-> params.radius_km,
         arbeitszeit |-> ArbeitszeitClause(arbeitszeit),
         veroeffentlichtseit |-> params.published_since_days,
         size |-> Some(PageSize(params, cfg)),
         page |-> params.page]

BuildSearchOptions(params, cfg) ==
    LET search_terms == SearchTerms(params)
        arbeitszeit == IF IsSome(params.employment_type)
                       THEN FilterMapEmploymentTypes(params.employment_type[1])
                       ELSE << >>
    IN  [was |-> IF search_terms # << >> THEN Some(Join(search_terms)) ELSE None,
         wo |-> params.location,
         umkreis |-> params.radius_km,
         arbeitszeit |-> ArbeitszeitClause(arbeitszeit),
         veroeffentlichtseit |-> params.published_since_days,
         size |-> Some(PageSize(params, cfg)),
         page |-> params.page]

(***************************************************************************)
(* search_jobs: projection of the JobSearchResponse.                       *)
(***************************************************************************)
\* faulty variant: the postal code is left out
SummaryLocationOrtOnly(arbeitsort) == UnwrapOr(arbeitsort.ort, "")

SummaryLocation(arbeitsort) ==
    UnwrapOr(arbeitsort.ort, "")
      \o (IF IsSome(arbeitsort.plz) THEN " (" \o arbeitsort.plz[1] \o ")" ELSE "")

\* faulty variant: no fallback to beruf, and a record without titel loses its employer
ToJobSummaryNoFallback(job) ==
    [reference_number |-> job.refnr,
     title |-> UnwrapOr(job.titel, ""),
     employer |-> IF IsSome(job.titel) THEN job.arbeitgeber ELSE "",
     location |-> SummaryLocation(job.arbeitsort),
     published_date |-> job.aktuelle_veroeffentlichungsdatum,
     external_url |-> job.externe_url]

ToJobSummary(job) ==
    [reference_number |-> job.refnr,
     title |-> UnwrapOr(job.titel, job.beruf),
     employer |-> job.arbeitgeber,
     location |-> SummaryLocation(job.arbeitsort),
     published_date |-> job.aktuelle_veroeffentlichungsdatum,
     external_url |-> job.externe_url]

\* faulty variant: jobs_count is the upstream total, not the length of jobs
ToSearchJobsResultCountsTotal(response) ==
    LET jobs == [k \in 1..Len(response.stellenangebote) |->
                    ToJobSummary(response.stellenangebote[k])]
    IN  [total_results |-> response.max_ergebnisse,
         current_page |-> response.page,
         page_size |-> response.size,
         jobs_count |-> UnwrapOr(response.max_ergebnisse, 0),
         jobs |-> jobs]

ToSearchJobsResult(response) ==
    LET jobs == [k \in 1..Len(response.stellenangebote) |->
                    ToJobSummary(response.stellenangebote[k])]
    IN  [total_results |-> response.max_ergebnisse,
         current_page |-> response.page,
         page_size |-> response.size,
         jobs_count |-> Len(jobs),
         jobs |-> jobs]

(***************************************************************************)
(* get_job_details: projection of the JobDetails.                          *)
(***************************************************************************)
\* faulty variant: the first work location that has an ort is used
DetailLocationFirstWithOrt(arbeitsorte) ==
    LET named == SelectSeq(arbeitsorte,
                           LAMBDA loc : IsSome(loc.adresse) /\ IsSome(loc.adresse[1].ort))
    IN  IF named = << >> THEN None
        ELSE LET ort == named[1].adresse[1].ort[1]
                 plz == named[1].adresse[1].plz
             IN  IF IsSome(plz) THEN Some(ort \o " (" \o plz[1] \o ")")
                 ELSE Some(ort)

DetailLocation(arbeitsorte) ==
    IF arbeitsorte = << >> THEN None
    ELSE LET loc == arbeitsorte[1] IN
         IF loc.adresse = None \/ loc.adresse[1].ort = None THEN None
         ELSE LET ort == loc.adresse[1].ort[1]
                  plz == loc.adresse[1].plz
              IN  IF IsSome(plz) THEN Some(ort \o " (" \o plz[1] \o ")")
                  ELSE Some(ort)

\* faulty variant: a range with an end only is worded like one with a start only
FormatDateRangeAlwaysAb(dr) ==
    CASE IsSome(dr.von) /\ IsSome(dr.bis) -> dr.von[1] \o " - " \o dr.bis[1]
      [] IsSome(dr.von) /\ dr.bis = None  -> "ab " \o dr.von[1]
      [] dr.von = None /\ IsSome(dr.bis)  -> "ab " \o dr.bis[1]
      [] OTHER -> ""

FormatDateRange(dr) ==
    CASE IsSome(dr.von) /\ IsSome(dr.bis) -> dr.von[1] \o " - " \o dr.bis[1]
      [] IsSome(dr.von) /\ dr.bis = None  -> "ab " \o dr.von[1]
      [] dr.von = None /\ IsSome(dr.bis)  -> "bis " \o dr.bis[1]
      [] OTHER -> ""

DatePeriod(zeitraum) ==
    IF IsSome(zeitraum) THEN Some(FormatDateRange(zeitraum[1])) ELSE None

\* faulty variant: the reference number is not the requested one
ReferenceFromUpstream(reference_number, details) == "upstream-refnr"

\* reference_number: params.reference_number.clone()
ResultReference(reference_number, details) == reference_number

ToJobDetailsResult(reference_number, details) ==
    [reference_number |-> ResultReference(reference_number, details),
     title |-> details.titel,
     description |-> details.stellenbeschreibung,
     employer |-> details.arbeitgeber,
     location |-> DetailLocation(details.arbeitsorte),
     employment_type |->
         IF IsSome(details.arbeitszeit_vollzeit)
         THEN Some(IF details.arbeitszeit_vollzeit[1] THEN "Vollzeit" ELSE "Teilzeit")
         ELSE None,
     contract_type |-> None,
     start_date |-> DatePeriod(details.eintrittszeitraum),
     application_deadline |-> None,
     contact_info |-> None,
     external_url |-> None,
     employer_profile_url |-> None,
     partner_url |-> details.allianzpartner_url,
     salary |-> details.verguetung,
     contract_duration |-> details.vertragsdauer,
     takeover_opportunity |-> None,
     job_type |-> details.stellenangebots_art,
     open_positions |-> None,
     company_size |-> None,
     employer_description |-> None,
     branch |-> None,
     published_date |-> None,
     first_published |-> details.erste_veroeffentlichungsdatum,
     only_for_disabled |-> details.nur_fuer_schwerbehinderte,
     fulltime |-> details.arbeitszeit_vollzeit,
     entry_period |-> DatePeriod(details.eintrittszeitraum),
     publication_period |-> DatePeriod(details.veroeffentlichungszeitraum),
     is_minor_employment |-> details.ist_geringfuegige_beschaeftigung,
     is_temp_agency |-> details.ist_arbeitnehmer_ueberlassung,
     is_private_agency |-> details.ist_private_arbeitsvermittlung,
     career_changer_suitable |-> details.quereinstieg_geeignet,
     cipher_number |-> details.chiffrenummer,
     raw_data |-> details]

\* the optional attributes of GetJobDetailsResult, by their serialized names
DetailAttributes ==
    {"title", "description", "employer", "location", "employment_type",
     "contract_type", "start_date", "application_deadline", "contact_info",
     "external_url", "employer_profile_url", "partner_url", "salary",
     "contract_duration", "takeover_opportunity", "job_type", "open_positions",
     "company_size", "employer_description", "branch", "published_date",
     "first_published", "only_for_disabled", "fulltime", "entry_period",
     "publication_period", "is_minor_employment", "is_temp_agency",
     "is_private_agency", "career_changer_suitable", "cipher_number"}

(***************************************************************************)
(* The invocations tried.                                                  *)
(***************************************************************************)
NoSearchParams ==
    [job_title |-> None, location |-> None, radius_km |-> None,
     employment_type |-> None, contract_type |-> None,
     published_since_days |-> None, page_size |-> None, page |-> None,
     employer |-> None, branch |-> None]

PageSizeInputs == {None, Some(0), Some(1), Some(3), Some(100), Some(101)}

SearchJobsInputs ==
    { [NoSearchParams EXCEPT !.job_title = t, !.location = l,
                             !.page_size = ps, !.page = pg] :
        t \in {None, Some("Engineer")}, l \in {None, Some("Berlin")},
        ps \in PageSizeInputs, pg \in {None, Some(2)} }

FieldFilters ==
    { None,
      Some([include_fields |-> Some(<<"title", "salary">>), exclude_fields |-> None]),
      Some([include_fields |-> None, exclude_fields |-> Some(<<"description">>)]),
      Some([include_fields |-> Some(<<"title", "salary", "employer">>),
            exclude_fields |-> Some(<<"employer", "no_such_field">>)]) }

WithDetailsInputs ==
    { [job_title |-> Some("Engineer"), location |-> None, radius_km |-> None,
       employment_type |-> None, contract_type |-> None,
       published_since_days |-> None, page_size |-> ps, page |-> None,
       employer |-> None, branch |-> None, max_details |-> md, fields |-> f] :
        ps \in {None, Some(1)},
        md \in {None, Some(0), Some(1), Some(2), Some(25)},
        f \in FieldFilters }

BatchItem(name, job_title, employer) ==
    [name |-> name, job_title |-> job_title, location |-> None,
     radius_km |-> None, employment_type |-> None, contract_type |-> None,
     published_since_days |-> None, employer |-> employer, branch |-> None]

ItemCycle ==
    << BatchItem("A", Some("Engineer"), None),
       BatchItem("B", None, Some("ACME")),
       BatchItem("C", Some("Koch"), Some("Gasthof")) >>

\* a list of n searches
Searches(n) == [k \in 1..n |-> ItemCycle[((k - 1) % Len(ItemCycle)) + 1]]

ShortBatchInputs ==
    { [searches |-> Searches(n), max_details_per_search |-> md, fields |-> None] :
        n \in 0..MaxShortBatch,
        md \in {None, Some(0), Some(1), Some(12)} }
    \cup
    { [searches |-> Searches(n), max_details_per_search |-> Some(1), fields |-> f] :
        n \in 0..MaxShortBatch, f \in FieldFilters }

LongBatchInputs ==
    { [searches |-> Searches(n), max_details_per_search |-> Some(0), fields |-> None] :
        n \in (MaxBatchSearches - 1)..MaxBatch }

(***************************************************************************)
(* Startup of the process: the environment, JobsucheConfig::load and       *)
(* validate, JobsucheMcpServer::new and main.  The value of an environment *)
(* variable is the sequence of its characters.                             *)
(***************************************************************************)
DecimalDigits == <<"0", "1", "2", "3", "4", "5", "6", "7", "8", "9">>

IsDigit(c) == \E k \in 1..Len(DecimalDigits) : DecimalDigits[k] = c

DigitValue(c) == (CHOOSE k \in 1..Len(DecimalDigits) : DecimalDigits[k] = c) - 1

RECURSIVE StripLeadingZeros(_)
StripLeadingZeros(ds) ==
    IF Len(ds) > 1 /\ ds[1] = "0" THEN StripLeadingZeros(Tail(ds)) ELSE ds

RECURSIVE DecimalValue(_)
DecimalValue(ds) ==
    IF ds = << >> THEN 0
    ELSE DecimalValue(SubSeq(ds, 1, Len(ds) - 1)) * 10 + DigitValue(ds[Len(ds)])

\* str::parse::<u64>: an optional "+", then one or more decimal digits; a
\* number of more than 20 digits overflows u64.  Values of up to 9 digits
\* are exact, longer ones stand for a value above every page size.
ParseU64(v) ==
    LET ds == IF v # << >> /\ v[1] = "+" THEN Tail(v) ELSE v IN
    IF ds = << >> \/ \E k \in 1..Len(ds) : ~IsDigit(ds[k]) THEN None
    ELSE IF Len(StripLeadingZeros(ds)) > 20 THEN None
    ELSE IF Len(StripLeadingZeros(ds)) > 9 THEN Some(1000000000)
    ELSE Some(DecimalValue(StripLeadingZeros(ds)))

\* str::starts_with
StartsWith(v, prefix) ==
    Len(v) >= Len(prefix) /\ SubSeq(v, 1, Len(prefix)) = prefix

DefaultApiUrl ==
    <<"h", "t", "t", "p", "s", ":", "/", "/", "r", "e", "s", "t", ".",
      "a", "r", "b", "e", "i", "t", "s", "a", "g", "e", "n", "t", "u",
      "r", ".", "d", "e", "/", "j", "o", "b", "b", "o", "e", "r", "s",
      "e", "/", "j", "o", "b", "s", "u", "c", "h", "e", "-", "s", "e",
      "r", "v", "i", "c", "e">>

\* faulty variant: a page size of 0 in the environment is accepted
LoadAcceptsZero(env) ==
    LET default_page_size ==
            UnwrapOr(IF IsSome(env.JOBSUCHE_DEFAULT_PAGE_SIZE)
                     THEN ParseU64(env.JOBSUCHE_DEFAULT_PAGE_SIZE[1]) ELSE None,
                     DefaultPageSize)
        max_page_size ==
            UnwrapOr(IF IsSome(env.JOBSUCHE_MAX_PAGE_SIZE)
                     THEN ParseU64(env.JOBSUCHE_MAX_PAGE_SIZE[1]) ELSE None,
                     DefaultMaxPageSize)
    IN  IF default_page_size > max_page_size
        THEN Err("Default page size cannot exceed max page size")
        ELSE IF max_page_size > ApiPageSizeLimit
        THEN Err("Max page size cannot exceed 100 (API limitation)")
        ELSE Ok([api_url |-> UnwrapOr(env.JOBSUCHE_API_URL, DefaultApiUrl),
                 api_key |-> env.JOBSUCHE_API_KEY,
                 default_page_size |-> default_page_size,
                 max_page_size |-> max_page_size])

\* JobsucheConfig::load
Load(env) ==
    LET api_url == UnwrapOr(env.JOBSUCHE_API_URL, DefaultApiUrl)
        api_key == env.JOBSUCHE_API_KEY
        default_page_size ==
            UnwrapOr(IF IsSome(env.JOBSUCHE_DEFAULT_PAGE_SIZE)
                     THEN ParseU64(env.JOBSUCHE_DEFAULT_PAGE_SIZE[1]) ELSE None,
                     DefaultPageSize)
        max_page_size ==
            UnwrapOr(IF IsSome(env.JOBSUCHE_MAX_PAGE_SIZE)
                     THEN ParseU64(env.JOBSUCHE_MAX_PAGE_SIZE[1]) ELSE None,
                     DefaultMaxPageSize)
    IN  IF default_page_size = 0
        THEN Err("Default page size must be greater than 0")
        ELSE IF max_page_size = 0
        THEN Err("Max page size must be greater than 0")
        ELSE IF default_page_size > max_page_size
        THEN Err("Default page size cannot exceed max page size")
        ELSE IF max_page_size > ApiPageSizeLimit
        THEN Err("Max page size cannot exceed 100 (API limitation)")
        ELSE Ok([api_url |-> api_url, api_key |-> api_key,
                 default_page_size |-> default_page_size,
                 max_page_size |-> max_page_size])

\* faulty variant: any non-empty URL is accepted
ValidateNonEmptyOnly(cfg) ==
    IF cfg.api_url = << >> THEN Err("API URL cannot be empty") ELSE Ok(TRUE)

\* JobsucheConfig::validate
Validate(cfg) ==
    IF cfg.api_url = << >> THEN Err("API URL cannot be empty")
    ELSE IF ~StartsWith(cfg.api_url, <<"h", "t", "t", "p", ":", "/", "/">>)
            /\ ~StartsWith(cfg.api_url, <<"h", "t", "t", "p", "s", ":", "/", "/">>)
    THEN Err("API URL must start with http:// or https://")
    ELSE Ok(TRUE)

\* values of JOBSUCHE_DEFAULT_PAGE_SIZE and JOBSUCHE_MAX_PAGE_SIZE
PageSizeTexts ==
    { <<"0">>,
      <<"1">>,
      <<"2", "5">>,
      <<"5", "0">>,
      <<"1", "0", "0">>,
      <<"1", "0", "1">>,
      <<"0", "0", "7">>,
      <<"+", "5">>,
      <<"-", "1">>,
      <<"a", "b", "c">>,
      <<>>,
      <<"5", " ">>,
      <<"2", ".", "5">>,
      <<"9", "9", "9", "9", "9", "9", "9", "9", "9", "9", "9", "9", "9", "9", "9", "9", "9", "9", "9", "9", "9">> }

\* values of JOBSUCHE_API_URL
ApiUrlTexts ==
    { <<>>,
      <<"h", "t", "t", "p", ":", "/", "/">>,
      <<"h", "t", "t", "p", "s", ":", "/", "/">>,
      <<"h", "t", "t", "p", ":", "/", "/", "l", "o", "c", "a", "l", "h", "o", "s", "t", ":", "8", "0", "8", "0">>,
      <<"h", "t", "t", "p", "s", ":", "/", "/", "a", "p", "i", ".", "e", "x", "a", "m", "p", "l", "e", ".", "o", "r", "g">>,
      <<"f", "t", "p", ":", "/", "/", "e", "x", "a", "m", "p", "l", "e", ".", "o", "r", "g">>,
      <<"h", "t", "t", "p", ":", "/", "e", "x", "a", "m", "p", "l", "e", ".", "o", "r", "g">>,
      <<"H", "T", "T", "P", ":", "/", "/", "e", "x", "a", "m", "p", "l", "e", ".", "o", "r", "g">>,
      <<"e", "x", "a", "m", "p", "l", "e", ".", "o", "r", "g">>,
      <<"h", "t", "t", "p", "x", ":", "/", "/", "a">>,
      <<" ", "h", "t", "t", "p", "s", ":", "/", "/", "e", "x", "a", "m", "p", "l", "e", ".", "o", "r", "g">> }

\* the environment with no variable set
EmptyEnv ==
    [JOBSUCHE_API_URL |-> None, JOBSUCHE_API_KEY |-> None,
     JOBSUCHE_DEFAULT_PAGE_SIZE |-> None, JOBSUCHE_MAX_PAGE_SIZE |-> None]

\* the page-size variables vary with the URL unset, the URL varies with
\* the page-size variables unset or set to a valid pair
Environments ==
    { [EmptyEnv EXCEPT !.JOBSUCHE_DEFAULT_PAGE_SIZE = d, !.JOBSUCHE_MAX_PAGE_SIZE = m] :
        d \in {None} \cup {Some(t) : t \in PageSizeTexts},
        m \in {None} \cup {Some(t) : t \in PageSizeTexts} }
    \cup
    { [EmptyEnv EXCEPT !.JOBSUCHE_API_URL = Some(u), !.JOBSUCHE_API_KEY = k,
                       !.JOBSUCHE_DEFAULT_PAGE_SIZE = d] :
        u \in ApiUrlTexts, k \in {None, Some("key")},
        d \in {None, Some(<<"5">>), Some(<<"0">>)} }

\* the process before JobsucheMcpServer::new has run
StartingProcess(env) ==
    [env |-> env, phase |-> "load", client |-> None, start_time |-> None, error |-> None]

\* the process once the server serves requests
ServingProcess ==
    [env |-> EmptyEnv, phase |-> "serving", client |-> Some(DefaultApiUrl),
     start_time |-> Some(0), error |-> None]

Scenario(cfg, up, op, params) ==
    [config |-> cfg, upstream |-> up, request |-> [op |-> op, params |-> params]]

Scenarios ==
    { Scenario(cfg, up, "search_jobs", p) :
        cfg \in Configs, up \in Catalogues, p \in SearchJobsInputs }
    \cup
    { Scenario(cfg, up, "get_job_details", [reference_number |-> r]) :
        cfg \in Configs, up \in Catalogues, r \in Refs }
    \cup
    { Scenario(cfg, up, "search_jobs_with_details", p) :
        cfg \in Configs, up \in Catalogues, p \in WithDetailsInputs }
    \cup
    { Scenario(cfg, up, "batch_search_jobs", p) :
        cfg \in Configs, up \in Catalogues, p \in ShortBatchInputs }
    \cup
    { Scenario(cfg, up, "batch_search_jobs", p) :
        cfg \in Configs,
        up \in {c \in Catalogues : Len(c.response.stellenangebote) = 2},
        p \in LongBatchInputs }

Init ==
    /\ \E sc \in Scenarios :
          /\ config = sc.config
          /\ upstream = sc.upstream
          /\ request = sc.request
    /\ process = ServingProcess
    /\ parked = << >>
    /\ pc = "invoked"
    /\ call = None
    /\ calls = << >>
    /\ item = 0
    /\ idx = 0
    /\ search_result = None
    /\ jobs_with_details = << >>
    /\ results = << >>
    /\ outcome = None

(***************************************************************************)
(* Values the handlers compute from the request.                           *)
(***************************************************************************)
op == request.op

\* faulty variant: the requested detail limit without its cap
MaxDetailsUncapped ==
    IF request.op = "batch_search_jobs"
    THEN UnwrapOr(request.params.max_details_per_search, BatchDefaultMaxDetails)
    ELSE UnwrapOr(request.params.max_details, DefaultMaxDetails)

\* search_jobs_with_details: params.max_details.unwrap_or(5).min(20)
\* batch_search_jobs: params.max_details_per_search.unwrap_or(3).min(10)
max_details ==
    IF op = "batch_search_jobs"
    THEN Min(UnwrapOr(request.params.max_details_per_search, BatchDefaultMaxDetails),
             BatchMaxDetailsCap)
    ELSE Min(UnwrapOr(request.params.max_details, DefaultMaxDetails), MaxDetailsCap)

\* faulty variant: every item of the batch is processed
SearchesCountUncapped == Len(request.params.searches)

\* params.searches.len().min(10)
searches_count == Min(Len(request.params.searches), MaxBatchSearches)

search_item == request.params.searches[item]

\* faulty variant: the batch leaves the page size of its searches to the config
SearchParamsBatchDefaultPageSize ==
    CASE op = "search_jobs" -> request.params
      [] op = "search_jobs_with_details" ->
           [job_title |-> request.params.job_title,
            location |-> request.params.location,
            radius_km |-> request.params.radius_km,
            employment_type |-> request.params.employment_type,
            contract_type |-> request.params.contract_type,
            published_since_days |-> request.params.published_since_days,
            page_size |-> request.params.page_size,
            page |-> request.params.page,
            employer |-> request.params.employer,
            branch |-> request.params.branch]
      [] op = "batch_search_jobs" ->
           [job_title |-> search_item.job_title,
            location |-> search_item.location,
            radius_km |-> search_item.radius_km,
            employment_type |-> search_item.employment_type,
            contract_type |-> search_item.contract_type,
            published_since_days |-> search_item.published_since_days,
            page_size |-> None,
            page |-> None,
            employer |-> search_item.employer,
            branch |-> search_item.branch]

\* the SearchJobsParams the handler passes to search_jobs
search_params ==
    CASE op = "search_jobs" -> request.params
      [] op = "search_jobs_with_details" ->
           [job_title |-> request.params.job_title,
            location |-> request.params.location,
            radius_km |-> request.params.radius_km,
            employment_type |-> request.params.employment_type,
            contract_type |-> request.params.contract_type,
            published_since_days |-> request.params.published_since_days,
            page_size |-> request.params.page_size,
            page |-> request.params.page,
            employer |-> request.params.employer,
            branch |-> request.params.branch]
      [] op = "batch_search_jobs" ->
           [job_title |-> search_item.job_title,
            location |-> search_item.location,
            radius_km |-> search_item.radius_km,
            employment_type |-> search_item.employment_type,
            contract_type |-> search_item.contract_type,
            published_since_days |-> search_item.published_since_days,
            page_size |-> Some(max_details),
            page |-> None,
            employer |-> search_item.employer,
            branch |-> search_item.branch]

\* faulty variant: the last n summaries are selected
TakeLast(jobs, n) == SubSeq(jobs, Len(jobs) - Min(n, Len(jobs)) + 1, Len(jobs))

\* search_result.jobs.iter().take(max_details as usize)
TakeJobs(jobs, n) == Take(jobs, n)

\* the summaries whose details the handler fetches
jobs_to_fetch ==
    IF op = "batch_search_jobs" /\ ~(max_details > 0) THEN << >>
    ELSE TakeJobs(search_result[1].jobs, max_details)

\* the reference number of the detail lookup at hand
reference_number ==
    IF op = "get_job_details" THEN request.params.reference_number
    ELSE jobs_to_fetch[idx].reference_number

\* faulty variant: a failed search leaves no entry
FailedSearchDropped(rs, name, e) == rs

\* batch_search_jobs, Err(e) arm of the search: the item's error entry
FailedSearch(rs, name, e) ==
    Append(rs, [search_name |-> name,
                total_results |-> None,
                jobs_count |-> 0,
                jobs |-> << >>,
                error |-> Some("Search failed: " \o e)])

\* faulty variant: a failed lookup leaves a placeholder entry
DetailErrPlaceholder(jobs, refnr, e) ==
    Append(jobs, ToJobDetailsResult(refnr, JobDetailsOf("")))

\* Err(e) arm of a detail lookup inside a loop: logged, nothing collected
DetailErr(jobs, refnr, e) == jobs

\* batch_search_jobs: the entry of an item whose search succeeded
ItemResult(name, sr, jobs) ==
    [search_name |-> name,
     total_results |-> sr.total_results,
     jobs_count |-> Len(jobs),
     jobs |-> jobs,
     error |-> None]

\* faulty variant: jobs_count is the count of the search, not of the details
WithDetailsResultCountsSummaries(sr, jobs) ==
    [total_results |-> sr.total_results,
     current_page |-> sr.current_page,
     page_size |-> sr.page_size,
     jobs_count |-> sr.jobs_count,
     jobs |-> jobs]

WithDetailsResult(sr, jobs) ==
    [total_results |-> sr.total_results,
     current_page |-> sr.current_page,
     page_size |-> sr.page_size,
     jobs_count |-> Len(jobs),
     jobs |-> jobs]

BatchResult(rs) == [searches_count |-> Len(rs), results |-> rs]

(***************************************************************************)
(* The handlers, one action per stretch between two awaits.  calls keeps   *)
(* every upstream call issued, with the item being processed and, once the *)
(* upstream has answered, whether it answered or failed.                   *)
(***************************************************************************)
Replied(r) == [calls EXCEPT ![Len(calls)].reply = r]

\* The tool is invoked: the handler runs up to its first loop or call.
Invoke ==
    /\ pc = "invoked"
    /\ pc' = CASE op = "batch_search_jobs" -> "batch_loop"
               [] op = "get_job_details" -> "detail"
               [] op = "get_server_status" -> "probe"
               [] OTHER -> "search"
    /\ item' = IF op = "batch_search_jobs" THEN 1 ELSE item
    /\ UNCHANGED <<process, parked, config, upstream, request, call, calls, idx, search_result,
                   jobs_with_details, results, outcome>>

\* search_jobs builds the options and awaits client.search().list(options)
IssueSearch ==
    /\ \/ pc = "search"
       \/ pc = "batch_loop" /\ item <= searches_count
    /\ LET c == [kind |-> "search", item |-> item, reply |-> "pending",
                 options |-> BuildSearchOptions(search_params, config)]
       IN  /\ call' = Some(c)
           /\ calls' = Append(calls, c)
    /\ pc' = "search_wait"
    /\ UNCHANGED <<process, parked, config, upstream, request, item, idx, search_result,
                   jobs_with_details, results, outcome>>

\* the upstream search answers
SearchReturnsOk ==
    /\ pc = "search_wait"
    /\ call' = None
    /\ calls' = Replied("ok")
    /\ LET sr == ToSearchJobsResult(upstream.response) IN
       IF op = "search_jobs"
       THEN /\ outcome' = Some(Ok(sr))
            /\ pc' = "done"
            /\ UNCHANGED <<search_result, jobs_with_details, idx>>
       ELSE /\ search_result' = Some(sr)
            /\ jobs_with_details' = << >>
            /\ idx' = 1
            /\ pc' = "details"
            /\ UNCHANGED outcome
    /\ UNCHANGED <<process, parked, config, upstream, request, item, results>>

\* faulty variant: a failed search is issued again
SearchErrRetry ==
    /\ pc = "search_wait"
    /\ call' = None
    /\ calls' = Replied("err")
    /\ pc' = IF op = "batch_search_jobs" THEN "batch_loop" ELSE "search"
    /\ UNCHANGED <<process, parked, config, upstream, request, item, idx, search_result,
                   jobs_with_details, results, outcome>>

\* faulty variant: a failed search is followed by the detail loop like an answered one
SearchErrFetchesDetails ==
    /\ pc = "search_wait"
    /\ call' = None
    /\ calls' = Replied("err")
    /\ IF op = "search_jobs"
       THEN /\ outcome' = Some(Err(upstream.error))
            /\ pc' = "done"
            /\ UNCHANGED <<search_result, jobs_with_details, idx>>
       ELSE /\ search_result' = Some(ToSearchJobsResult(upstream.response))
            /\ jobs_with_details' = << >>
            /\ idx' = 1
            /\ pc' = "details"
            /\ UNCHANGED outcome
    /\ UNCHANGED <<process, parked, config, upstream, request, item, results>>

\* the upstream search fails
SearchReturnsErr ==
    /\ pc = "search_wait"
    /\ call' = None
    /\ calls' = Replied("err")
    /\ IF op = "batch_search_jobs"
       THEN /\ results' = FailedSearch(results, search_item.name, upstream.error)
            /\ item' = item + 1
            /\ pc' = "batch_loop"
            /\ UNCHANGED outcome
       ELSE /\ outcome' = Some(Err(upstream.error))
            /\ pc' = "done"
            /\ UNCHANGED <<results, item>>
    /\ UNCHANGED <<process, parked, config, upstream, request, idx, search_result,
                   jobs_with_details>>

\* the JobDetails the upstream answers a lookup with
UpstreamDetails(refnr) ==
    IF "details" \in DOMAIN upstream THEN upstream.details ELSE JobDetailsOf(refnr)

\* get_job_details awaits client.job_details(reference_number)
IssueDetail ==
    /\ \/ pc = "detail"
       \/ pc = "details" /\ idx <= Len(jobs_to_fetch)
    /\ LET c == [kind |-> "detail", item |-> item, reply |-> "pending",
                 reference_number |-> reference_number]
       IN  /\ call' = Some(c)
           /\ calls' = Append(calls, c)
    /\ pc' = "detail_wait"
    /\ UNCHANGED <<process, parked, config, upstream, request, item, idx, search_result,
                   jobs_with_details, results, outcome>>

\* the upstream detail lookup answers
DetailReturnsOk ==
    /\ pc = "detail_wait"
    /\ call' = None
    /\ calls' = Replied("ok")
    /\ LET details == ToJobDetailsResult(reference_number, UpstreamDetails(reference_number)) IN
       IF op = "get_job_details"
       THEN /\ outcome' = Some(Ok(details))
            /\ pc' = "done"
            /\ UNCHANGED <<jobs_with_details, idx>>
       ELSE /\ jobs_with_details' = Append(jobs_with_details, details)
            /\ idx' = idx + 1
            /\ pc' = "details"
            /\ UNCHANGED outcome
    /\ UNCHANGED <<process, parked, config, upstream, request, item, search_result, results>>

\* faulty variant: a failed lookup ends the handler with its error
DetailErrRaises ==
    /\ pc = "detail_wait"
    /\ call' = None
    /\ calls' = Replied("err")
    /\ outcome' = Some(Err(upstream.error))
    /\ pc' = "done"
    /\ UNCHANGED <<process, parked, config, upstream, request, item, idx, search_result,
                   jobs_with_details, results>>

\* faulty variant: a failed lookup inside a loop is issued again
DetailErrRetried ==
    /\ pc = "detail_wait"
    /\ call' = None
    /\ calls' = Replied("err")
    /\ IF op = "get_job_details"
       THEN /\ outcome' = Some(Err(upstream.error))
            /\ pc' = "done"
       ELSE /\ pc' = "details"
            /\ UNCHANGED outcome
    /\ UNCHANGED <<process, parked, config, upstream, request, item, idx, search_result,
                   jobs_with_details, results>>

\* the upstream detail lookup fails
DetailReturnsErr ==
    /\ pc = "detail_wait"
    /\ call' = None
    /\ calls' = Replied("err")
    /\ IF op = "get_job_details"
       THEN /\ outcome' = Some(Err(upstream.error))
            /\ pc' = "done"
            /\ UNCHANGED <<jobs_with_details, idx>>
       ELSE /\ jobs_with_details' = DetailErr(jobs_with_details, reference_number, upstream.error)
            /\ idx' = idx + 1
            /\ pc' = "details"
            /\ UNCHANGED outcome
    /\ UNCHANGED <<process, parked, config, upstream, request, item, search_result, results>>

\* the detail loop is over
FinishDetails ==
    /\ pc = "details"
    /\ idx > Len(jobs_to_fetch)
    /\ IF op = "batch_search_jobs"
       THEN /\ results' = Append(results, ItemResult(search_item.name, search_result[1],
                                                       jobs_with_details))
            /\ item' = item + 1
            /\ pc' = "batch_loop"
            /\ UNCHANGED outcome
       ELSE /\ outcome' = Some(Ok(WithDetailsResult(search_result[1], jobs_with_details)))
            /\ pc' = "done"
            /\ UNCHANGED <<results, item>>
    /\ UNCHANGED <<process, parked, config, upstream, request, call, calls, idx, search_result,
                   jobs_with_details>>

\* batch_search_jobs: the loop over the searches is over
FinishBatch ==
    /\ pc = "batch_loop"
    /\ item > searches_count
    /\ outcome' = Some(Ok(BatchResult(results)))
    /\ pc' = "done"
    /\ UNCHANGED <<process, parked, config, upstream, request, call, calls, item, idx, search_result,
                   jobs_with_details, results>>

(***************************************************************************)
(* get_server_status: one probe search, then the status.                   *)
(***************************************************************************)
\* SearchOptions::builder().size(1).build()
ProbeOptions ==
    [was |-> None, wo |-> None, umkreis |-> None, arbeitszeit |-> None,
     veroeffentlichtseit |-> None, size |-> Some(ProbeSize), page |-> None]

\* seconds start_time.elapsed() can report
Uptimes == {0, 1, 90}

\* JobsucheServerStatus { .. }
ServerStatus(connection_status, uptime) ==
    [server_name |-> "Jobsuche MCP Server",
     version |-> "0.3.0",
     uptime_seconds |-> uptime,
     api_url |-> config.api_url,
     api_connection_status |-> connection_status,
     tools_count |-> ToolsCount]

\* get_server_status awaits the probe search
IssueProbe ==
    /\ pc = "probe"
    /\ LET c == [kind |-> "search", item |-> item, reply |-> "pending",
                 options |-> ProbeOptions]
       IN  /\ call' = Some(c)
           /\ calls' = Append(calls, c)
    /\ pc' = "probe_wait"
    /\ UNCHANGED <<process, parked, config, upstream, request, item, idx, search_result,
                   jobs_with_details, results, outcome>>

\* the probe answers: Ok(_) => "Connected"
ProbeReturnsOk ==
    /\ pc = "probe_wait"
    /\ call' = None
    /\ calls' = Replied("ok")
    /\ \E uptime \in Uptimes : outcome' = Some(Ok(ServerStatus("Connected", uptime)))
    /\ pc' = "done"
    /\ UNCHANGED <<process, parked, config, upstream, request, item, idx, search_result,
                   jobs_with_details, results>>

\* faulty variant: a failed probe fails get_server_status
ProbeErrRaises ==
    /\ pc = "probe_wait"
    /\ call' = None
    /\ calls' = Replied("err")
    /\ outcome' = Some(Err(upstream.error))
    /\ pc' = "done"
    /\ UNCHANGED <<process, parked, config, upstream, request, item, idx, search_result,
                   jobs_with_details, results>>

\* the probe fails: Err(e) => "Connection Error: {e}"
ProbeReturnsErr ==
    /\ pc = "probe_wait"
    /\ call' = None
    /\ calls' = Replied("err")
    /\ \E uptime \in Uptimes :
          outcome' = Some(Ok(ServerStatus("Connection Error: " \o upstream.error, uptime)))
    /\ pc' = "done"
    /\ UNCHANGED <<process, parked, config, upstream, request, item, idx, search_result,
                   jobs_with_details, results>>

Next ==
    \/ Invoke
    \/ IssueSearch
    \/ SearchReturnsOk
    \/ SearchReturnsErr
    \/ IssueDetail
    \/ DetailReturnsOk
    \/ DetailReturnsErr
    \/ FinishDetails
    \/ FinishBatch

Spec == Init /\ [][Next]_vars

(***************************************************************************)
(* Vocabulary of the properties.                                           *)
(***************************************************************************)
Done == pc = "done"

\* what the handler returned
Returned == outcome[1]

IsBatch == op = "batch_search_jobs"

IsWithDetails == op = "search_jobs_with_details"

SearchCalls == SelectSeq(calls, LAMBDA c : c.kind = "search")

DetailCalls == SelectSeq(calls, LAMBDA c : c.kind = "detail")

\* the detail lookups issued while item i was processed (i = 0 outside a batch)
DetailCallsOf(i) == SelectSeq(calls, LAMBDA c : c.kind = "detail" /\ c.item = i)

Answered(cs) == SelectSeq(cs, LAMBDA c : c.reply = "ok")

Failed(cs) == SelectSeq(cs, LAMBDA c : c.reply = "err")

CallRefs(cs) == [k \in 1..Len(cs) |-> cs[k].reference_number]

JobRefs(jobs) == [k \in 1..Len(jobs) |-> jobs[k].reference_number]

\* the reference numbers of the upstream search response, in upstream order
UpstreamRefs ==
    [k \in 1..Len(upstream.response.stellenangebote) |->
        upstream.response.stellenangebote[k].refnr]

IsPrefix(s, t) == Len(s) <= Len(t) /\ s = SubSeq(t, 1, Len(s))

\* the items of a batch the handler has finished with
FinishedItems == IF Done THEN 1..Len(SearchCalls) ELSE 1..(item - 1)

(***************************************************************************)
(* Long result lists.  The upstream answers every search with more         *)
(* postings than any detail limit admits; at most MaxFailedLookups of the  *)
(* detail lookups fail, searches fail freely.                              *)
(***************************************************************************)
RefCycle == <<"r1", "r2", "r3">>

LargeCatalogue(n) ==
    [response |-> SearchResponse([k \in 1..n |-> RefCycle[((k - 1) % Len(RefCycle)) + 1]],
                                 Some(n)),
     error |-> "timeout"]

LargeCatalogues == {LargeCatalogue(DefaultMaxDetails + 1), LargeCatalogue(MaxCatalogue)}

LargeConfig == [default_page_size |-> 25, max_page_size |-> 100]

LargeWithDetailsInputs ==
    { [NoSearchParams EXCEPT !.job_title = Some("Engineer")]
        @@ [max_details |-> md, fields |-> None] :
        md \in {None, Some(MaxDetailsCap), Some(MaxDetailsCap + 1), Some(1000)} }

LargeBatchInputs ==
    { [searches |-> Searches(n), max_details_per_search |-> md, fields |-> None] :
        n \in 1..2,
        md \in {None, Some(BatchMaxDetailsCap), Some(BatchMaxDetailsCap + 1), Some(1000)} }

LargeScenarios ==
    { Scenario(LargeConfig, up, "search_jobs_with_details", p) :
        up \in LargeCatalogues, p \in LargeWithDetailsInputs }
    \cup
    { Scenario(LargeConfig, up, "batch_search_jobs", p) :
        up \in LargeCatalogues, p \in LargeBatchInputs }

InitLarge ==
    /\ \E sc \in LargeScenarios :
          /\ config = sc.config
          /\ upstream = sc.upstream
          /\ request = sc.request
    /\ process = ServingProcess
    /\ parked = << >>
    /\ pc = "invoked"
    /\ call = None
    /\ calls = << >>
    /\ item = 0
    /\ idx = 0
    /\ search_result = None
    /\ jobs_with_details = << >>
    /\ results = << >>
    /\ outcome = None

\* a detail lookup fails while fewer than MaxFailedLookups have failed
DetailReturnsErrBounded ==
    /\ Len(Failed(DetailCalls)) < MaxFailedLookups
    /\ DetailReturnsErr

NextLarge ==
    \/ Invoke
    \/ IssueSearch
    \/ SearchReturnsOk
    \/ SearchReturnsErr
    \/ IssueDetail
    \/ DetailReturnsOk
    \/ DetailReturnsErrBounded
    \/ FinishDetails
    \/ FinishBatch

SpecLarge == InitLarge /\ [][NextLarge]_vars

(***************************************************************************)
(* Progress.  The runtime keeps polling the handler's future, so a step    *)
(* of the handler that can be taken is taken; every upstream call          *)
(* eventually returns, answered or failed, and any number of them fail.    *)
(***************************************************************************)
FairCatalogues == {LargeCatalogue(0), LargeCatalogue(DefaultMaxDetails + 1)}

FairLimits == {None, Some(0), Some(1000)}

FairScenarios ==
    { Scenario(LargeConfig, up, "search_jobs_with_details",
               [NoSearchParams EXCEPT !.job_title = Some("Engineer")]
                 @@ [max_details |-> md, fields |-> None]) :
        up \in FairCatalogues, md \in FairLimits }
    \cup
    { Scenario(LargeConfig, up, "batch_search_jobs",
               [searches |-> Searches(n), max_details_per_search |-> md, fields |-> None]) :
        up \in FairCatalogues, n \in 0..2, md \in FairLimits }

InitFair ==
    /\ \E sc \in FairScenarios :
          /\ config = sc.config
          /\ upstream = sc.upstream
          /\ request = sc.request
    /\ process = ServingProcess
    /\ parked = << >>
    /\ pc = "invoked"
    /\ call = None
    /\ calls = << >>
    /\ item = 0
    /\ idx = 0
    /\ search_result = None
    /\ jobs_with_details = << >>
    /\ results = << >>
    /\ outcome = None

\* the handler's own steps between two awaits
HandlerStep == Invoke \/ IssueSearch \/ IssueDetail \/ FinishDetails \/ FinishBatch

\* an upstream search returns, answered or failed
SearchReturns == SearchReturnsOk \/ SearchReturnsErr

\* an upstream detail lookup returns, answered or failed
DetailReturns == DetailReturnsOk \/ DetailReturnsErr

Fairness ==
    /\ WF_vars(HandlerStep)
    /\ WF_vars(SearchReturns)
    /\ WF_vars(DetailReturns)

SpecFair == InitFair /\ [][Next]_vars /\ Fairness

(***************************************************************************)
(* Single upstream call on wide inputs.  search_jobs and get_job_details   *)
(* are invoked with every combination of the request fields that shapes    *)
(* the upstream query, and the upstream answers with postings that cover   *)
(* every combination of the optional attributes the projections read.      *)
(***************************************************************************)
\* the match arms of parse_employment_type: spelling and EmploymentType
SynonymTable ==
    { [tag |-> <<"f", "u", "l", "l", "t", "i", "m", "e">>, arbeitszeit |-> "Vollzeit"],
      [tag |-> <<"f", "u", "l", "l">>, arbeitszeit |-> "Vollzeit"],
      [tag |-> <<"v", "o", "l", "l", "z", "e", "i", "t">>, arbeitszeit |-> "Vollzeit"],
      [tag |-> <<"v", "z">>, arbeitszeit |-> "Vollzeit"],
      [tag |-> <<"p", "a", "r", "t", "t", "i", "m", "e">>, arbeitszeit |-> "Teilzeit"],
      [tag |-> <<"p", "a", "r", "t">>, arbeitszeit |-> "Teilzeit"],
      [tag |-> <<"t", "e", "i", "l", "z", "e", "i", "t">>, arbeitszeit |-> "Teilzeit"],
      [tag |-> <<"t", "z">>, arbeitszeit |-> "Teilzeit"],
      [tag |-> <<"m", "i", "n", "i">>, arbeitszeit |-> "Minijob"],
      [tag |-> <<"m", "i", "n", "i", "j", "o", "b">>, arbeitszeit |-> "Minijob"],
      [tag |-> <<"m", "i", "n", "i", "_", "j", "o", "b">>, arbeitszeit |-> "Minijob"],
      [tag |-> <<"h", "o", "m", "e">>, arbeitszeit |-> "HeimTelearbeit"],
      [tag |-> <<"h", "o", "m", "e", "o", "f", "f", "i", "c", "e">>, arbeitszeit |-> "HeimTelearbeit"],
      [tag |-> <<"h", "o", "m", "e", "_", "o", "f", "f", "i", "c", "e">>, arbeitszeit |-> "HeimTelearbeit"],
      [tag |-> <<"h", "o">>, arbeitszeit |-> "HeimTelearbeit"],
      [tag |-> <<"s", "h", "i", "f", "t">>, arbeitszeit |-> "SchichtNachtarbeitWochenende"],
      [tag |-> <<"s", "c", "h", "i", "c", "h", "t">>, arbeitszeit |-> "SchichtNachtarbeitWochenende"],
      [tag |-> <<"s", "n", "w">>, arbeitszeit |-> "SchichtNachtarbeitWochenende"] }

\* spellings that are in no match arm
OtherTags ==
    { <<>>,
      <<"i", "n", "v", "a", "l", "i", "d">>,
      <<"I", "N", "V", "A", "L", "I", "D">>,
      <<"f", "u", "l">>,
      <<"f", "u", "l", "l", "t", "i", "m", "e", "s">>,
      <<"f", "u", "l", "l", " ", "t", "i", "m", "e">>,
      <<" ", "f", "u", "l", "l">>,
      <<"v", "o", "l", "l", "z", "e", "i", "t", " ">>,
      <<"v">>,
      <<"z">>,
      <<"t", "z", "z">>,
      <<"m", "i", "n", "i", "-", "j", "o", "b">>,
      <<"m", "i", "n", "i", "j", "o", "b", "s">>,
      <<"h", "o", "m", "e", " ", "o", "f", "f", "i", "c", "e">>,
      <<"h", "o", "m", "e", "o", "f", "f", "i", "c">>,
      <<"s", "h", "i", "f", "t", "s">>,
      <<"s", "n">>,
      <<"p", "e", "r", "m", "a", "n", "e", "n", "t">>,
      <<"b", "e", "f", "r", "i", "s", "t", "e", "t">>,
      <<"x">> }

ToUpperChar(c) ==
    IF \E k \in 1..Len(LowerCaseLetters) : LowerCaseLetters[k] = c
    THEN UpperCaseLetters[CHOOSE k \in 1..Len(LowerCaseLetters) : LowerCaseLetters[k] = c]
    ELSE c

\* a spelling in every combination of upper and lower case letters
RECURSIVE LetterCases(_)
LetterCases(tag) ==
    IF tag = << >> THEN { << >> }
    ELSE { <<c>> \o rest : c \in {tag[1], ToUpperChar(tag[1])},
                           rest \in LetterCases(Tail(tag)) }

EmploymentTags ==
    UNION { LetterCases(row.tag) : row \in SynonymTable } \cup OtherTags

SingleTagInputs ==
    { [NoSearchParams EXCEPT !.employment_type = Some(<<t>>)] : t \in EmploymentTags }

EmploymentTagLists ==
    { <<>>,
      <<<<"i", "n", "v", "a", "l", "i", "d">>>>,
      <<<<>>, <<"x">>>>,
      <<<<"F", "U", "L", "L", "T", "I", "M", "E">>>>,
      <<<<"i", "n", "v", "a", "l", "i", "d">>, <<"T", "z">>, <<"p", "e", "r", "m", "a", "n", "e", "n", "t">>, <<"H", "o", "m", "e", "_", "O", "f", "f", "i", "c", "e">>>>,
      <<<<"v", "z">>, <<"m", "i", "n", "i">>, <<"V", "Z">>>>,
      <<<<"S", "c", "h", "i", "c", "h", "t">>, <<"i", "n", "v", "a", "l", "i", "d">>>>,
      <<<<"h", "o">>, <<"S", "N", "W">>, <<"p", "a", "r", "t">>, <<"M", "i", "n", "i", "J", "o", "b">>, <<"v", "o", "l", "l", "z", "e", "i", "t">>>> }

EmploymentInputs ==
    { [NoSearchParams EXCEPT !.job_title = Some("Koch"), !.employment_type = e] :
        e \in {None} \cup {Some(l) : l \in EmploymentTagLists} }

FreeTextInputs ==
    { [NoSearchParams EXCEPT !.job_title = t, !.employer = e, !.branch = b] :
        t \in {None, Some(""), Some("Engineer")},
        e \in {None, Some(""), Some("ACME")},
        b \in {None, Some(""), Some("IT")} }

FilterInputs ==
    { [NoSearchParams EXCEPT !.location = l, !.radius_km = r,
                             !.published_since_days = d, !.page = pg,
                             !.page_size = ps] :
        l \in {None, Some(""), Some("Berlin")},
        r \in {None, Some(0), Some(50)},
        d \in {None, Some(0), Some(7)},
        pg \in {None, Some(1), Some(3)},
        ps \in {None, Some(10)} }

WideSearchInputs ==
    SingleTagInputs \cup EmploymentInputs \cup FreeTextInputs \cup FilterInputs

\* a search record with the given optional attributes
WideListing(refnr, titel, ort, plz) ==
    [JobListing(refnr) EXCEPT !.titel = titel, !.arbeitsort = [ort |-> ort, plz |-> plz]]

WideListings ==
    { WideListing(r, t, o, p) :
        r \in {"r1", "r2"},
        t \in {None, Some(""), Some("Chefkoch")},
        o \in {None, Some(""), Some("Berlin")},
        p \in {None, Some("10115")} }

DateRanges ==
    {None} \cup
    { Some([von |-> v, bis |-> b]) :
        v \in {None, Some("2025-01-01")}, b \in {None, Some("2025-12-31")} }

WideDetails ==
    { [JobDetailsOf("r1") EXCEPT !.eintrittszeitraum = e,
                                 !.veroeffentlichungszeitraum = v] :
        e \in DateRanges, v \in DateRanges }

WideCatalogue ==
    [response |-> SearchResponse(<<"r2", "r1">>, Some(2)), error |-> "timeout"]

\* upstream results of one or two of the wide search records
ListingCatalogues ==
    { [response |-> [SearchResponse(<<"r1">>, Some(1)) EXCEPT !.stellenangebote = <<j>>],
       error |-> "HTTP 500"] : j \in WideListings }
    \cup
    { [response |-> [SearchResponse(<<"r1", "r2">>, Some(2))
                        EXCEPT !.stellenangebote = <<j, [j EXCEPT !.titel = None]>>],
       error |-> "HTTP 500"] : j \in WideListings }

\* adresse of a JobLocation: absent, or with ort and plz present or absent
WideAddresses ==
    {None} \cup
    { Some([ort |-> o, plz |-> p]) :
        o \in {None, Some(""), Some("Berlin")}, p \in {None, Some("10115")} }

\* arbeitsorte: none, one, or a first one followed by others
WideWorkLocations ==
    { << >> }
    \cup
    { <<[adresse |-> a]>> : a \in WideAddresses }
    \cup
    { <<[adresse |-> a], [adresse |-> b]>> :
        a \in WideAddresses,
        b \in {None, Some([ort |-> Some("Bonn"), plz |-> Some("53111")])} }
    \cup
    { <<[adresse |-> a], [adresse |-> None],
        [adresse |-> Some([ort |-> Some("Bonn"), plz |-> None])]>> :
        a \in WideAddresses }

DetailCatalogues ==
    { [response |-> SearchResponse(<< >>, None), error |-> "timeout", details |-> d] :
        d \in WideDetails }
    \cup
    { [response |-> SearchResponse(<< >>, None), error |-> "timeout",
       details |-> [JobDetailsOf("r2") EXCEPT !.arbeitsorte = w]] :
        w \in WideWorkLocations }

\* contract_type: Option<Vec<String>>, "permanent" and "temporary" documented
ContractTypes ==
    { None, Some(<< >>), Some(<<"permanent">>), Some(<<"temporary">>),
      Some(<<"permanent", "temporary">>), Some(<<"freelance">>) }

\* the same search with every contract type, through each of the three
\* handlers that take one
ContractScenarios ==
    { Scenario(LargeConfig, WideCatalogue, "search_jobs",
               [NoSearchParams EXCEPT !.job_title = t, !.contract_type = ct]) :
        t \in {None, Some("Engineer")}, ct \in ContractTypes }
    \cup
    { Scenario(LargeConfig, WideCatalogue, "search_jobs_with_details",
               [NoSearchParams EXCEPT !.job_title = t, !.contract_type = ct]
                 @@ [max_details |-> Some(1), fields |-> None]) :
        t \in {None, Some("Engineer")}, ct \in ContractTypes }
    \cup
    { Scenario(LargeConfig, WideCatalogue, "batch_search_jobs",
               [searches |-> << [BatchItem("A", t, None) EXCEPT !.contract_type = ct],
                                [BatchItem("B", None, Some("ACME"))
                                    EXCEPT !.contract_type = ct2] >>,
                max_details_per_search |-> Some(0), fields |-> None]) :
        t \in {None, Some("Engineer")}, ct \in ContractTypes,
        ct2 \in {None, Some(<<"temporary">>)} }

WideScenarios ==
    { Scenario(LargeConfig, WideCatalogue, "search_jobs", p) : p \in WideSearchInputs }
    \cup
    ContractScenarios
    \cup
    { Scenario(LargeConfig, up, "search_jobs", NoSearchParams) : up \in ListingCatalogues }
    \cup
    { Scenario(LargeConfig, up, "get_job_details", [reference_number |-> r]) :
        up \in DetailCatalogues, r \in {"r1", "r3"} }

InitWide ==
    /\ \E sc \in WideScenarios :
          /\ config = sc.config
          /\ upstream = sc.upstream
          /\ request = sc.request
    /\ process = ServingProcess
    /\ parked = << >>
    /\ pc = "invoked"
    /\ call = None
    /\ calls = << >>
    /\ item = 0
    /\ idx = 0
    /\ search_result = None
    /\ jobs_with_details = << >>
    /\ results = << >>
    /\ outcome = None

NextWide ==
    \/ Invoke
    \/ IssueSearch
    \/ SearchReturnsOk
    \/ SearchReturnsErr
    \/ IssueDetail
    \/ DetailReturnsOk
    \/ DetailReturnsErr
    \/ FinishDetails
    \/ FinishBatch

SpecWide == InitWide /\ [][NextWide]_vars

(***************************************************************************)
(* The process from its start: main calls JobsucheMcpServer::new, which    *)
(* loads and validates the configuration and creates the API client; on    *)
(* an error main exits, otherwise the server serves a request.             *)
(***************************************************************************)
NoRequest == [op |-> "none", params |-> None]

\* requests the server is sent once it serves
ServerRequests ==
    { [op |-> "get_server_status", params |-> None],
      [op |-> "search_jobs", params |-> NoSearchParams],
      [op |-> "search_jobs", params |-> [NoSearchParams EXCEPT !.page_size = Some(50)]] }

\* let config = Arc::new(JobsucheConfig::load()?)
LoadConfig ==
    /\ process.phase = "load"
    /\ LET loaded == Load(process.env) IN
       IF loaded.ok
       THEN /\ config' = loaded.value
            /\ process' = [process EXCEPT !.phase = "validate"]
       ELSE /\ process' = [process EXCEPT !.phase = "failed", !.error = Some(loaded.error)]
            /\ UNCHANGED config
    /\ UNCHANGED <<parked, upstream, request, pc, call, calls, item, idx, search_result,
                   jobs_with_details, results, outcome>>

\* config.validate()?
ValidateConfig ==
    /\ process.phase = "validate"
    /\ LET validated == Validate(config) IN
       IF validated.ok
       THEN process' = [process EXCEPT !.phase = "connect"]
       ELSE process' = [process EXCEPT !.phase = "failed", !.error = Some(validated.error)]
    /\ UNCHANGED <<parked, config, upstream, request, pc, call, calls, item, idx,
                   search_result, jobs_with_details, results, outcome>>

\* JobsucheAsync::new(&config.api_url, credentials) succeeds; new returns Ok(Self)
CreateClientOk ==
    /\ process.phase = "connect"
    /\ process' = [process EXCEPT !.phase = "created",
                                   !.client = Some(config.api_url),
                                   !.start_time = Some(0)]
    /\ UNCHANGED <<parked, config, upstream, request, pc, call, calls, item, idx,
                   search_result, jobs_with_details, results, outcome>>

\* JobsucheAsync::new(..) fails; new returns its error
CreateClientErr ==
    /\ process.phase = "connect"
    /\ process' = [process EXCEPT !.phase = "failed", !.error = Some("client error")]
    /\ UNCHANGED <<parked, config, upstream, request, pc, call, calls, item, idx,
                   search_result, jobs_with_details, results, outcome>>

\* main: Err(e) => std::process::exit(1)
ExitOnError ==
    /\ process.phase = "failed"
    /\ process' = [process EXCEPT !.phase = "exited"]
    /\ UNCHANGED <<parked, config, upstream, request, pc, call, calls, item, idx,
                   search_result, jobs_with_details, results, outcome>>

\* main: jobsuche_server.serve_stdio().await, server.run()
ServeStdio ==
    /\ process.phase = "created"
    /\ process' = [process EXCEPT !.phase = "serving"]
    /\ UNCHANGED <<parked, config, upstream, request, pc, call, calls, item, idx,
                   search_result, jobs_with_details, results, outcome>>

\* the serving process is sent a request
Accept ==
    /\ process.phase = "serving"
    /\ pc = "idle"
    /\ \E r \in ServerRequests : request' = r
    /\ pc' = "invoked"
    /\ UNCHANGED <<process, parked, config, upstream, call, calls, item, idx,
                   search_result, jobs_with_details, results, outcome>>

InitServer ==
    /\ \E env \in Environments : process = StartingProcess(env)
    /\ parked = << >>
    /\ config = None
    /\ upstream = WideCatalogue
    /\ request = NoRequest
    /\ pc = "idle"
    /\ call = None
    /\ calls = << >>
    /\ item = 0
    /\ idx = 0
    /\ search_result = None
    /\ jobs_with_details = << >>
    /\ results = << >>
    /\ outcome = None

NextServer ==
    \/ LoadConfig
    \/ ValidateConfig
    \/ CreateClientOk
    \/ CreateClientErr
    \/ ExitOnError
    \/ ServeStdio
    \/ Accept
    \/ Invoke
    \/ IssueProbe
    \/ ProbeReturnsOk
    \/ ProbeReturnsErr
    \/ IssueSearch
    \/ SearchReturnsOk
    \/ SearchReturnsErr

SpecServer == InitServer /\ [][NextServer]_vars

(***************************************************************************)
(* Concurrent invocations on one server.  Every invocation has its own     *)
(* request, position, calls and collected results; the server's config,    *)
(* client and start time and the upstream are common to all.  The state    *)
(* variables hold the invocation that runs, parked holds the others, and   *)
(* the runtime may switch between them at any point.                       *)
(***************************************************************************)
\* the request-local state of the running invocation
Running ==
    [request |-> request, pc |-> pc, call |-> call, calls |-> calls, item |-> item,
     idx |-> idx, search_result |-> search_result,
     jobs_with_details |-> jobs_with_details, results |-> results, outcome |-> outcome]

\* an invocation that has not run yet
Fresh(r) ==
    [request |-> r, pc |-> "invoked", call |-> None, calls |-> << >>, item |-> 0,
     idx |-> 0, search_result |-> None, jobs_with_details |-> << >>, results |-> << >>,
     outcome |-> None]

ConcurrentRequests ==
    { [op |-> "search_jobs", params |-> [NoSearchParams EXCEPT !.job_title = Some("Koch")]],
      [op |-> "get_job_details", params |-> [reference_number |-> "r1"]],
      [op |-> "search_jobs_with_details",
       params |-> [NoSearchParams EXCEPT !.job_title = Some("Engineer")]
                    @@ [max_details |-> Some(1), fields |-> None]],
      [op |-> "batch_search_jobs",
       params |-> [searches |-> Searches(1), max_details_per_search |-> Some(1),
                   fields |-> None]],
      [op |-> "get_server_status", params |-> None] }

\* faulty variant: the collected details belong to the server, not to the invocation
SwitchSharingDetails(k) ==
    /\ request' = parked[k].request
    /\ pc' = parked[k].pc
    /\ call' = parked[k].call
    /\ calls' = parked[k].calls
    /\ item' = parked[k].item
    /\ idx' = parked[k].idx
    /\ search_result' = parked[k].search_result
    /\ results' = parked[k].results
    /\ outcome' = parked[k].outcome
    /\ parked' = [parked EXCEPT ![k] = Running]
    /\ UNCHANGED <<process, config, upstream, jobs_with_details>>

\* the runtime parks the running invocation and resumes the k-th parked one
Switch(k) ==
    /\ request' = parked[k].request
    /\ pc' = parked[k].pc
    /\ call' = parked[k].call
    /\ calls' = parked[k].calls
    /\ item' = parked[k].item
    /\ idx' = parked[k].idx
    /\ search_result' = parked[k].search_result
    /\ jobs_with_details' = parked[k].jobs_with_details
    /\ results' = parked[k].results
    /\ outcome' = parked[k].outcome
    /\ parked' = [parked EXCEPT ![k] = Running]
    /\ UNCHANGED <<process, config, upstream>>

InitConcurrent ==
    /\ process = ServingProcess
    /\ config = Load(EmptyEnv).value
    /\ upstream = WideCatalogue
    /\ \E n \in 1..(MaxConcurrent - 1) :
          \E rs \in [1..(n + 1) -> ConcurrentRequests] :
             /\ request = rs[1]
             /\ parked = [k \in 1..n |-> Fresh(rs[k + 1])]
    /\ pc = "invoked"
    /\ call = None
    /\ calls = << >>
    /\ item = 0
    /\ idx = 0
    /\ search_result = None
    /\ jobs_with_details = << >>
    /\ results = << >>
    /\ outcome = None

NextConcurrent ==
    \/ Invoke
    \/ IssueSearch
    \/ SearchReturnsOk
    \/ SearchReturnsErr
    \/ IssueDetail
    \/ DetailReturnsOk
    \/ DetailReturnsErr
    \/ FinishDetails
    \/ FinishBatch
    \/ IssueProbe
    \/ ProbeReturnsOk
    \/ ProbeReturnsErr
    \/ \E k \in 1..Len(parked) : Switch(k)

SpecConcurrent == InitConcurrent /\ [][NextConcurrent]_vars

(***************************************************************************)
(* Vocabulary of the properties of the query.                              *)
(***************************************************************************)
\* two spellings that differ at most in the case of their letters
SameLetters(a, b) ==
    /\ Len(a) = Len(b)
    /\ \A k \in 1..Len(a) : a[k] = b[k] \/ a[k] = ToUpperChar(b[k])

\* the EmploymentType the table gives a tag: Some(type), or None
TableType(tag) ==
    IF \E row \in SynonymTable : SameLetters(tag, row.tag)
    THEN Some((CHOOSE row \in SynonymTable : SameLetters(tag, row.tag)).arbeitszeit)
    ELSE None

\* the options of the query search_jobs has sent
SentOptions == SearchCalls[1].options

(***************************************************************************)
(* C1: batch_search_jobs isolates search failures per item.  When the      *)
(* batch has returned, every processed item was searched once, the entry   *)
(* of an item whose search failed carries the item's name, a non-empty     *)
(* error string, no jobs and no total_results, and the entry of every      *)
(* other item carries its name and no error.                               *)
(***************************************************************************)
C1_BatchIsolatesSearchFailures ==
    (IsBatch /\ Done) =>
        /\ Returned.ok
        /\ Len(SearchCalls) = Len(Returned.value.results)
        /\ \A i \in 1..Len(SearchCalls) :
              LET c == SearchCalls[i]
                  r == Returned.value.results[i]
              IN  /\ c.item = i
                  /\ r.search_name = request.params.searches[i].name
                  /\ c.reply = "err" =>
                        /\ IsSome(r.error) /\ r.error[1] # ""
                        /\ r.jobs = << >> /\ r.jobs_count = 0
                        /\ r.total_results = None
                  /\ c.reply = "ok" =>
                        /\ r.error = None
                        /\ r.total_results = upstream.response.max_ergebnisse

\* three items, the search of the second failed, the others have details
C1_Witness ==
    /\ IsBatch /\ Done
    /\ Len(request.params.searches) = 3
    /\ Len(Returned.value.results) = 3
    /\ SearchCalls[1].reply = "ok" /\ SearchCalls[2].reply = "err"
    /\ SearchCalls[3].reply = "ok"
    /\ IsSome(Returned.value.results[2].error)
    /\ Returned.value.results[1].jobs # << >>
    /\ Returned.value.results[3].jobs # << >>

(***************************************************************************)
(* C2: detail expansion tolerates the failure of single lookups.  For      *)
(* search_jobs_with_details that has returned after a successful search,   *)
(* and for every finished batch item whose search succeeded: the call did  *)
(* not fail, every selected identifier was looked up, and the details      *)
(* returned are those of the lookups that answered, in lookup order, with  *)
(* no entry for a failed one.                                              *)
(***************************************************************************)
C2_DetailsOf(i, jobs) ==
    /\ JobRefs(jobs) = CallRefs(Answered(DetailCallsOf(i)))
    /\ \A k \in 1..Len(jobs) :
          jobs[k] = ToJobDetailsResult(jobs[k].reference_number,
                                       JobDetailsOf(jobs[k].reference_number))
    /\ CallRefs(DetailCallsOf(i)) = Take(UpstreamRefs, max_details)

C2_DetailFailureSkipped ==
    /\ (IsWithDetails /\ Done /\ SearchCalls[1].reply = "ok") =>
          /\ Returned.ok
          /\ C2_DetailsOf(0, Returned.value.jobs)
    /\ IsBatch =>
          \A i \in FinishedItems :
             SearchCalls[i].reply = "ok" =>
                /\ results[i].error = None
                /\ C2_DetailsOf(i, results[i].jobs)
    /\ (IsBatch /\ Done) => Returned.ok /\ Returned.value.results = results

\* the second of three lookups failed, the first and the third are returned
C2_Witness ==
    /\ IsWithDetails /\ Done
    /\ Len(DetailCalls) = 3
    /\ DetailCalls[1].reply = "ok" /\ DetailCalls[2].reply = "err"
    /\ DetailCalls[3].reply = "ok"
    /\ Returned.ok
    /\ JobRefs(Returned.value.jobs) = <<UpstreamRefs[1], UpstreamRefs[3]>>

(***************************************************************************)
(* C3: detail lookups go to the first `limit` identifiers of the search    *)
(* result, in upstream order.  At any time the lookups issued for an item  *)
(* are a prefix of the first min(limit, number of summaries) upstream      *)
(* reference numbers, they are all of them once the item is finished, and  *)
(* no more than `limit` details are returned.                              *)
(***************************************************************************)
C3_Selected == SubSeq(UpstreamRefs, 1, Min(max_details, Len(UpstreamRefs)))

C3_LookupsArePrefix ==
    /\ IsWithDetails =>
          /\ IsPrefix(CallRefs(DetailCallsOf(0)), C3_Selected)
          /\ (Done /\ Returned.ok) =>
                /\ CallRefs(DetailCallsOf(0)) = C3_Selected
                /\ Len(Returned.value.jobs) <= max_details
    /\ IsBatch =>
          /\ \A i \in 1..Len(SearchCalls) :
                /\ IsPrefix(CallRefs(DetailCallsOf(i)), C3_Selected)
                /\ (i \in FinishedItems /\ SearchCalls[i].reply = "ok") =>
                      /\ CallRefs(DetailCallsOf(i)) = C3_Selected
                      /\ Len(results[i].jobs) <= max_details

\* more summaries than the limit: only the first `limit` were looked up
C3_Witness ==
    /\ IsWithDetails /\ Done /\ Returned.ok
    /\ max_details = 2
    /\ Len(UpstreamRefs) = 3
    /\ CallRefs(DetailCalls) = <<UpstreamRefs[1], UpstreamRefs[2]>>

(***************************************************************************)
(* C4: batch_search_jobs given n items processes the first min(n, 10).     *)
(* When it has returned, it returned Ok, min(n, 10) searches were issued,  *)
(* the result has min(n, 10) entries, the i-th named after the i-th input  *)
(* item whether its search failed or not, and searches_count is that       *)
(* length.                                                                 *)
(***************************************************************************)
C4_BatchTruncatedToTen ==
    (IsBatch /\ Done) =>
        LET n == Len(request.params.searches)
            m == IF n <= MaxBatchSearches THEN n ELSE MaxBatchSearches
        IN  /\ Returned.ok
            /\ Len(SearchCalls) = m
            /\ Len(Returned.value.results) = m
            /\ Returned.value.searches_count = m
            /\ \A i \in 1..m :
                  /\ Returned.value.results[i].search_name
                        = request.params.searches[i].name
                  /\ IsSome(Returned.value.results[i].error)
                        <=> SearchCalls[i].reply = "err"

\* eleven items, ten entries, a failed search among them
C4_Witness ==
    /\ IsBatch /\ Done
    /\ Len(request.params.searches) = MaxBatchSearches + 1
    /\ Returned.value.searches_count = MaxBatchSearches
    /\ IsSome(Returned.value.results[4].error)
    /\ Returned.value.results[5].error = None

(***************************************************************************)
(* C5: the page size of every upstream search is                           *)
(* min(requested page size, else default_page_size; max_page_size): it is  *)
(* always sent and never above the configured maximum.                     *)
(***************************************************************************)
C5_Requested ==
    IF IsBatch THEN Some(max_details) ELSE request.params.page_size

C5_PageSizeCapped ==
    \A k \in 1..Len(calls) :
        calls[k].kind = "search" =>
            LET wanted == IF C5_Requested = None THEN config.default_page_size
                          ELSE C5_Requested[1]
                size == calls[k].options.size
            IN  /\ IsSome(size)
                /\ size[1] <= config.max_page_size
                /\ size[1] = IF wanted <= config.max_page_size THEN wanted
                             ELSE config.max_page_size

\* a request above the maximum is sent as the maximum
C5_Witness ==
    /\ op = "search_jobs" /\ pc = "search_wait"
    /\ request.params.page_size = Some(101)
    /\ call[1].options.size = Some(config.max_page_size)

(***************************************************************************)
(* C6: the page size of every upstream search lies in [1, max_page_size],  *)
(* whatever page size was requested, under a configuration with            *)
(* 1 <= default_page_size <= max_page_size <= 100.                         *)
(***************************************************************************)
C6_PageSizeAtLeastOne ==
    \A k \in 1..Len(calls) :
        calls[k].kind = "search" =>
            /\ 1 <= calls[k].options.size[1]
            /\ calls[k].options.size[1] <= config.max_page_size

(***************************************************************************)
(* C7, as claimed: batch_search_jobs and search_jobs_with_details always   *)
(* return Ok, whatever upstream calls failed, and a failed search is       *)
(* carried as an error string of its own entry.                            *)
(***************************************************************************)
C7_MultiItemAlwaysOk ==
    ((IsBatch \/ IsWithDetails) /\ Done) =>
        /\ Returned.ok
        /\ IsBatch =>
              \A i \in 1..Len(SearchCalls) :
                 SearchCalls[i].reply = "err" => IsSome(Returned.value.results[i].error)

(***************************************************************************)
(* C7, amended: batch_search_jobs always returns Ok and carries each       *)
(* failed search as the error string of that item's entry, and no other    *)
(* entry has one; search_jobs_with_details returns Ok exactly when its     *)
(* search call answered and otherwise returns that search's error; in      *)
(* both, a failed detail lookup leaves no entry and no error string.       *)
(***************************************************************************)
C7_MultiItemEnvelope ==
    /\ (IsBatch /\ Done) =>
          /\ Returned.ok
          /\ Len(Returned.value.results) = Len(SearchCalls)
          /\ \A i \in 1..Len(SearchCalls) :
                LET r == Returned.value.results[i] IN
                /\ SearchCalls[i].reply = "err" =>
                      r.error = Some("Search failed: " \o upstream.error)
                /\ SearchCalls[i].reply = "ok" =>
                      /\ r.error = None
                      /\ Len(r.jobs) = Len(Answered(DetailCallsOf(i)))
    /\ (IsWithDetails /\ Done) =>
          /\ Returned.ok <=> SearchCalls[1].reply = "ok"
          /\ ~Returned.ok => Returned.error = upstream.error
          /\ Returned.ok => Len(Returned.value.jobs) = Len(Answered(DetailCalls))

\* every one of three detail lookups failed, and the call returned Ok
C7_Witness ==
    /\ IsWithDetails /\ Done
    /\ Len(DetailCalls) = 3
    /\ Len(Failed(DetailCalls)) = 3
    /\ Returned.ok
    /\ Returned.value.jobs = << >>

(***************************************************************************)
(* C8: single-item calls surface the upstream error.  search_jobs returns  *)
(* the error of its failed search call, get_job_details the error of its   *)
(* failed detail lookup, and a detail returned by get_job_details has the  *)
(* requested reference number.                                             *)
(***************************************************************************)
C8_SingleCallsSurfaceErrors ==
    /\ (op = "search_jobs" /\ Done /\ calls[1].reply = "err") =>
          /\ ~Returned.ok
          /\ Returned.error = upstream.error
    /\ (op = "get_job_details" /\ Done) =>
          /\ calls[1].reply = "err" =>
                ~Returned.ok /\ Returned.error = upstream.error
          /\ calls[1].reply = "ok" =>
                /\ Returned.ok
                /\ Returned.value.reference_number = request.params.reference_number

\* a failed search ends search_jobs with the upstream error
C8_Witness ==
    /\ op = "search_jobs" /\ Done
    /\ calls[1].reply = "err"
    /\ Returned = Err(upstream.error)

(***************************************************************************)
(* C9: no upstream call is retried.  search_jobs issues one search call;   *)
(* in a with-details or batch call there is at most one search per item,   *)
(* the k-th lookup of an item is for the k-th selected identifier, so each *)
(* selected identifier is looked up once whether lookups fail or not; a    *)
(* batch of n items issues at most min(n, 10) searches and at most         *)
(* min(n, 10) * limit lookups.                                             *)
(***************************************************************************)
C9_ItemsProcessed ==
    IF IsBatch
    THEN (IF Len(request.params.searches) <= MaxBatchSearches
          THEN Len(request.params.searches) ELSE MaxBatchSearches)
    ELSE 1

C9_NoRetry ==
    /\ op = "search_jobs" =>
          /\ Len(SearchCalls) <= 1 /\ DetailCalls = << >>
          /\ Done => Len(SearchCalls) = 1
    /\ (IsWithDetails \/ IsBatch) =>
          /\ Len(SearchCalls) <= C9_ItemsProcessed
          /\ Len(DetailCalls) <= C9_ItemsProcessed * max_details
          /\ \A i \in 1..Len(SearchCalls) :
                SearchCalls[i].item = (IF IsBatch THEN i ELSE 0)
          /\ \A i \in 0..Len(SearchCalls) :
                LET ds == DetailCallsOf(i) IN
                /\ Len(ds) <= Min(max_details, Len(UpstreamRefs))
                /\ \A k \in 1..Len(ds) : ds[k].reference_number = UpstreamRefs[k]
          /\ Done => Len(SearchCalls) = C9_ItemsProcessed

\* a batch with a failed search and a failed lookup issued one search per item
C9_Witness ==
    /\ IsBatch /\ Done
    /\ Len(request.params.searches) = 3
    /\ Failed(SearchCalls) # << >>
    /\ Failed(DetailCalls) # << >>
    /\ Len(SearchCalls) = 3

(***************************************************************************)
(* C10: with fields.include_fields set, every detail returned by           *)
(* search_jobs_with_details and batch_search_jobs has only the named       *)
(* attributes populated; every other optional attribute is absent.         *)
(***************************************************************************)
C10_Filtered(jobs, fields) ==
    (IsSome(fields) /\ IsSome(fields[1].include_fields)) =>
        \A k \in 1..Len(jobs) :
           \A a \in DetailAttributes :
              (\A n \in 1..Len(fields[1].include_fields[1]) :
                   fields[1].include_fields[1][n] # a)
                 => jobs[k][a] = None

C10_IncludeFieldsApplied ==
    /\ (IsWithDetails /\ Done /\ Returned.ok) =>
          C10_Filtered(Returned.value.jobs, request.params.fields)
    /\ (IsBatch /\ Done) =>
          \A i \in 1..Len(Returned.value.results) :
             C10_Filtered(Returned.value.results[i].jobs, request.params.fields)

(***************************************************************************)
(* C11: with fields.exclude_fields set, the named attributes are absent    *)
(* from every detail returned by search_jobs_with_details and              *)
(* batch_search_jobs; with both lists set, only the included attributes    *)
(* that are not excluded stay populated; a name that is no attribute       *)
(* changes nothing and the call still returns its result.                  *)
(***************************************************************************)
C11_Names(list) == IF IsSome(list) THEN {list[1][n] : n \in 1..Len(list[1])} ELSE {}

C11_Filtered(jobs, fields) ==
    IsSome(fields) =>
        \A k \in 1..Len(jobs) :
           \A a \in DetailAttributes :
              /\ a \in C11_Names(fields[1].exclude_fields) => jobs[k][a] = None
              /\ (IsSome(fields[1].include_fields) /\ IsSome(fields[1].exclude_fields)
                    /\ a \notin C11_Names(fields[1].include_fields))
                   => jobs[k][a] = None

C11_ExcludeFieldsApplied ==
    /\ (IsWithDetails /\ Done /\ Returned.ok) =>
          C11_Filtered(Returned.value.jobs, request.params.fields)
    /\ (IsBatch /\ Done) =>
          /\ Returned.ok
          /\ \A i \in 1..Len(Returned.value.results) :
                C11_Filtered(Returned.value.results[i].jobs, request.params.fields)

(***************************************************************************)
(* C12: the detail limit is clamped.  search_jobs_with_details looks up    *)
(* at most min(max_details or 5, 20) postings, batch_search_jobs at most   *)
(* min(max_details_per_search or 3, 10) for every item, whatever the       *)
(* request asks for and however long the upstream result list is; a        *)
(* finished call after a successful search has looked up exactly the       *)
(* smaller of that limit and the length of the result list.                *)
(***************************************************************************)
C12_Requested ==
    IF IsBatch THEN request.params.max_details_per_search ELSE request.params.max_details

C12_Limit ==
    IF IsBatch
    THEN (IF C12_Requested = None THEN 3
          ELSE IF C12_Requested[1] <= 10 THEN C12_Requested[1] ELSE 10)
    ELSE (IF C12_Requested = None THEN 5
          ELSE IF C12_Requested[1] <= 20 THEN C12_Requested[1] ELSE 20)

C12_Expected ==
    IF C12_Limit <= Len(UpstreamRefs) THEN C12_Limit ELSE Len(UpstreamRefs)

C12_DetailLimitClamped ==
    /\ IsWithDetails =>
          /\ Len(DetailCalls) <= 20
          /\ Len(DetailCalls) <= C12_Limit
          /\ (Done /\ Returned.ok) => Len(DetailCalls) = C12_Expected
    /\ IsBatch =>
          \A i \in 1..Len(request.params.searches) :
             /\ Len(DetailCallsOf(i)) <= 10
             /\ Len(DetailCallsOf(i)) <= C12_Limit
             /\ (i \in FinishedItems /\ SearchCalls[i].reply = "ok")
                  => Len(DetailCallsOf(i)) = C12_Expected

\* 21 details asked of a list of 21 postings: 20 lookups, one of them failed
C12_Witness ==
    /\ IsWithDetails /\ Done /\ Returned.ok
    /\ request.params.max_details = Some(21)
    /\ Len(UpstreamRefs) > 20
    /\ Len(DetailCalls) = 20
    /\ Failed(DetailCalls) # << >>

\* 11 details per search asked of two searches: 10 lookups for each
C12_BatchWitness ==
    /\ IsBatch /\ Done
    /\ request.params.max_details_per_search = Some(11)
    /\ Len(UpstreamRefs) > 10
    /\ Len(DetailCallsOf(1)) = 10
    /\ Len(DetailCallsOf(2)) = 10

(***************************************************************************)
(* C13: the free-text clause of the query search_jobs sends is the         *)
(* non-empty values among job_title, employer and branch, in that order,   *)
(* joined by one space; it is omitted when there is no such value, and     *)
(* the empty string is never sent as the free-text clause.                 *)
(***************************************************************************)
C13_Values ==
    SelectSeq(<<request.params.job_title, request.params.employer, request.params.branch>>,
              LAMBDA v : v # None /\ v # Some(""))

C13_Joined ==
    CASE Len(C13_Values) = 1 -> C13_Values[1][1]
      [] Len(C13_Values) = 2 -> C13_Values[1][1] \o " " \o C13_Values[2][1]
      [] Len(C13_Values) = 3 ->
           C13_Values[1][1] \o " " \o C13_Values[2][1] \o " " \o C13_Values[3][1]
      [] OTHER -> ""

C13_FreeTextOfNonEmptyValues ==
    (op = "search_jobs" /\ SearchCalls # << >>) =>
        LET was == SearchCalls[1].options.was IN
        /\ was # Some("")
        /\ was = (IF C13_Values = << >> THEN None ELSE Some(C13_Joined))

(***************************************************************************)
(* C14: the employment-type clause of the query holds, in request order,   *)
(* the type the synonym table gives each recognised tag; unrecognised tags *)
(* are dropped and raise no error; the clause is omitted when no tag is    *)
(* recognised, be the list absent, empty or unrecognised throughout.       *)
(***************************************************************************)
C14_Tags == UnwrapOr(request.params.employment_type, << >>)

C14_Recognised == SelectSeq(C14_Tags, LAMBDA t : TableType(t) # None)

C14_EmploymentClause ==
    (op = "search_jobs" /\ SearchCalls # << >>) =>
        /\ C14_Recognised = << >> => SentOptions.arbeitszeit = None
        /\ C14_Recognised # << >> =>
              /\ IsSome(SentOptions.arbeitszeit)
              /\ Len(SentOptions.arbeitszeit[1]) = Len(C14_Recognised)
              /\ \A k \in 1..Len(C14_Recognised) :
                    Some(SentOptions.arbeitszeit[1][k]) = TableType(C14_Recognised[k])
        /\ (Done /\ SearchCalls[1].reply = "ok") => Returned.ok

\* four tags, the first and third unrecognised: two types sent, result returned
C14_Witness ==
    /\ op = "search_jobs" /\ Done /\ Returned.ok
    /\ Len(C14_Tags) = 4
    /\ TableType(C14_Tags[1]) = None /\ TableType(C14_Tags[3]) = None
    /\ SentOptions.arbeitszeit = Some(<<"Teilzeit", "HeimTelearbeit">>)

\* only unrecognised tags: no clause, result returned
C14_OmittedWitness ==
    /\ op = "search_jobs" /\ Done /\ Returned.ok
    /\ Len(C14_Tags) = 2
    /\ SentOptions.arbeitszeit = None

(***************************************************************************)
(* C15: parse_employment_type is total and case-insensitive.  A tag that   *)
(* spells a synonym of the table in any combination of upper and lower     *)
(* case maps to the synonym's type; every other tag, the empty one         *)
(* included, maps to nothing; the query sent for a single tag carries that *)
(* type or no employment-type clause.                                      *)
(***************************************************************************)
C15_Tags == UnwrapOr(request.params.employment_type, << >>)

C15_ParseTotalCaseInsensitive ==
    op = "search_jobs" =>
        /\ \A k \in 1..Len(C15_Tags) :
              /\ parse_employment_type(C15_Tags[k]) = TableType(C15_Tags[k])
              /\ parse_employment_type(C15_Tags[k])
                    \in {None} \cup {Some(row.arbeitszeit) : row \in SynonymTable}
        /\ (Len(C15_Tags) = 1 /\ SearchCalls # << >>) =>
              SentOptions.arbeitszeit =
                  (IF TableType(C15_Tags[1]) = None THEN None
                   ELSE Some(<<TableType(C15_Tags[1])[1]>>))

\* "hOmE_oFfIcE" was sent as HeimTelearbeit
C15_Witness ==
    /\ op = "search_jobs" /\ SearchCalls # << >>
    /\ C15_Tags = << <<"h", "O", "m", "E", "_", "o", "F", "f", "I", "c", "E">> >>
    /\ SentOptions.arbeitszeit = Some(<<"HeimTelearbeit">>)

\* the empty tag maps to nothing
C15_EmptyWitness ==
    /\ op = "search_jobs" /\ SearchCalls # << >>
    /\ C15_Tags = << << >> >>
    /\ SentOptions.arbeitszeit = None

C17_Projects(result) ==
    /\ Len(result.jobs) = Len(upstream.response.stellenangebote)
    /\ \A i \in 1..Len(upstream.response.stellenangebote) :
          result.jobs[i].reference_number = upstream.response.stellenangebote[i].refnr
    /\ result.jobs_count = Len(upstream.response.stellenangebote)

C17_OneSummaryPerRecord ==
    /\ (op = "search_jobs" /\ Done /\ Returned.ok) => C17_Projects(Returned.value)
    /\ IsSome(search_result) => C17_Projects(search_result[1])

\* three records in, three summaries out, same order, upstream total 40
C17_Witness ==
    /\ op = "search_jobs" /\ Done /\ Returned.ok
    /\ UpstreamRefs = <<"r3", "r1", "r2">>
    /\ JobRefs(Returned.value.jobs) = <<"r3", "r1", "r2">>
    /\ Returned.value.jobs_count = 3
    /\ Returned.value.total_results = Some(40)

(***************************************************************************)
(* C18, as stated: the location of a summary is "" when ort and plz are    *)
(* absent, the ort when only the ort is present, "ort (plz)" when both are *)
(* present, and just the parenthesized postal code, "(plz)", when only the *)
(* plz is present; the projection never fails.                             *)
(***************************************************************************)
C18_Stated(arbeitsort) ==
    CASE arbeitsort.ort = None /\ arbeitsort.plz = None -> ""
      [] arbeitsort.ort # None /\ arbeitsort.plz = None -> arbeitsort.ort[1]
      [] arbeitsort.ort # None /\ arbeitsort.plz # None ->
           arbeitsort.ort[1] \o " (" \o arbeitsort.plz[1] \o ")"
      [] OTHER -> "(" \o arbeitsort.plz[1] \o ")"

C18_LocationComposed ==
    (op = "search_jobs" /\ Done /\ SearchCalls[1].reply = "ok") =>
        /\ Returned.ok
        /\ \A i \in 1..Len(upstream.response.stellenangebote) :
              Returned.value.jobs[i].location =
                  C18_Stated(upstream.response.stellenangebote[i].arbeitsort)

(***************************************************************************)
(* C18, amended: as above, except that with the ort absent and the plz     *)
(* present the location is a space followed by the parenthesized postal    *)
(* code, " (plz)".                                                         *)
(***************************************************************************)
C18_Amended(arbeitsort) ==
    CASE arbeitsort.ort = None /\ arbeitsort.plz = None -> ""
      [] arbeitsort.ort # None /\ arbeitsort.plz = None -> arbeitsort.ort[1]
      [] arbeitsort.ort # None /\ arbeitsort.plz # None ->
           arbeitsort.ort[1] \o " (" \o arbeitsort.plz[1] \o ")"
      [] OTHER -> " (" \o arbeitsort.plz[1] \o ")"

C18_LocationComposedWithSpace ==
    (op = "search_jobs" /\ Done /\ SearchCalls[1].reply = "ok") =>
        /\ Returned.ok
        /\ \A i \in 1..Len(upstream.response.stellenangebote) :
              Returned.value.jobs[i].location =
                  C18_Amended(upstream.response.stellenangebote[i].arbeitsort)

\* a record without ort and with plz 10115 was projected
C18_Witness ==
    /\ op = "search_jobs" /\ Done /\ Returned.ok
    /\ Len(Returned.value.jobs) = 1
    /\ upstream.response.stellenangebote[1].arbeitsort = [ort |-> None, plz |-> Some("10115")]
    /\ Returned.value.jobs[1].location = " (10115)"

(***************************************************************************)
(* C19: every JobSummary has a title, the upstream titel when the record   *)
(* has one and its beruf otherwise; two records that differ in nothing but *)
(* their titel yield summaries that differ in nothing but their title.     *)
(***************************************************************************)
C19_OtherFields == {"reference_number", "employer", "location", "published_date",
                    "external_url"}

C19_TitleFallsBackToBeruf ==
    (op = "search_jobs" /\ Done /\ Returned.ok) =>
        LET records == upstream.response.stellenangebote
            jobs == Returned.value.jobs
        IN  /\ DOMAIN jobs = DOMAIN records
            /\ \A i \in DOMAIN records :
                  /\ DOMAIN jobs[i] = C19_OtherFields \cup {"title"}
                  /\ jobs[i].title = (IF records[i].titel = None THEN records[i].beruf
                                       ELSE records[i].titel[1])
            /\ \A i, k \in DOMAIN records :
                  [records[i] EXCEPT !.titel = None] = [records[k] EXCEPT !.titel = None]
                    => \A f \in C19_OtherFields : jobs[i][f] = jobs[k][f]

\* two records alike but for the titel, present in the first only
C19_Witness ==
    /\ op = "search_jobs" /\ Done /\ Returned.ok
    /\ Len(Returned.value.jobs) = 2
    /\ upstream.response.stellenangebote[1].titel = Some("Chefkoch")
    /\ upstream.response.stellenangebote[2]
          = [upstream.response.stellenangebote[1] EXCEPT !.titel = None]
    /\ Returned.value.jobs[1].title = "Chefkoch"
    /\ Returned.value.jobs[2].title = upstream.response.stellenangebote[2].beruf
    /\ Returned.value.jobs[2]
          = [Returned.value.jobs[1] EXCEPT !.title = upstream.response.stellenangebote[2].beruf]

(***************************************************************************)
(* C20: entry_period and publication_period of a job detail word their    *)
(* upstream date range by the same rule: "from - to" when both dates are   *)
(* present, "ab from" with a start only, "bis to" with an end only, and    *)
(* the empty string with neither.                                          *)
(***************************************************************************)
C20_Text(range) ==
    IF range.von # None
    THEN (IF range.bis # None THEN range.von[1] \o " - " \o range.bis[1]
          ELSE "ab " \o range.von[1])
    ELSE (IF range.bis # None THEN "bis " \o range.bis[1] ELSE "")

C20_Worded(period, zeitraum) ==
    zeitraum # None => period = Some(C20_Text(zeitraum[1]))

C20_DateRangesFormatted ==
    (op = "get_job_details" /\ Done /\ Returned.ok) =>
        /\ C20_Worded(Returned.value.entry_period, upstream.details.eintrittszeitraum)
        /\ C20_Worded(Returned.value.publication_period,
                       upstream.details.veroeffentlichungszeitraum)

\* a start only in the entry range, an end only in the publication range
C20_Witness ==
    /\ op = "get_job_details" /\ Done /\ Returned.ok
    /\ upstream.details.eintrittszeitraum = Some([von |-> Some("2025-01-01"), bis |-> None])
    /\ upstream.details.veroeffentlichungszeitraum
          = Some([von |-> None, bis |-> Some("2025-12-31")])
    /\ Returned.value.entry_period = Some("ab 2025-01-01")
    /\ Returned.value.publication_period = Some("bis 2025-12-31")

\* both dates in the entry range, none in the publication range
C20_BothNeitherWitness ==
    /\ op = "get_job_details" /\ Done /\ Returned.ok
    /\ Returned.value.entry_period = Some("2025-01-01 - 2025-12-31")
    /\ upstream.details.veroeffentlichungszeitraum = Some([von |-> None, bis |-> None])
    /\ Returned.value.publication_period = Some("")

(***************************************************************************)
(* C21: get_server_status issues exactly one upstream call, a search with  *)
(* page size 1 and no other clause, and always returns a status: its       *)
(* api_connection_status is "Connected" when the probe answered and        *)
(* "Connection Error: " followed by the error message when it failed, and  *)
(* its tools_count is 5 either way.                                        *)
(***************************************************************************)
C21_StatusAlwaysReturned ==
    op = "get_server_status" =>
        /\ Len(calls) <= 1
        /\ \A k \in 1..Len(calls) :
              /\ calls[k].kind = "search"
              /\ calls[k].options.size = Some(1)
              /\ \A f \in DOMAIN calls[k].options \ {"size"} : calls[k].options[f] = None
        /\ Done =>
              /\ Len(calls) = 1
              /\ Returned.ok
              /\ Returned.value.tools_count = 5
              /\ calls[1].reply = "ok" =>
                    Returned.value.api_connection_status = "Connected"
              /\ calls[1].reply = "err" =>
                    Returned.value.api_connection_status
                        = "Connection Error: " \o upstream.error

\* the probe failed with "timeout" and the status was returned
C21_Witness ==
    /\ op = "get_server_status" /\ Done /\ Returned.ok
    /\ calls[1].reply = "err"
    /\ Returned.value.api_connection_status = "Connection Error: timeout"
    /\ Returned.value.tools_count = 5

\* the probe answered
C21_ConnectedWitness ==
    /\ op = "get_server_status" /\ Done /\ Returned.ok
    /\ calls[1].reply = "ok"
    /\ Returned.value.api_connection_status = "Connected"

(***************************************************************************)
(* C22: JobsucheConfig::load succeeds exactly when the resolved page sizes *)
(* satisfy 1 <= default_page_size <= max_page_size <= 100, an unset or     *)
(* unparsable environment value being resolved to 25 resp. 100; the        *)
(* configuration it returns holds the resolved sizes.                      *)
(***************************************************************************)
C22_Resolved(text, builtin) ==
    IF text = None \/ ParseU64(text[1]) = None THEN builtin ELSE ParseU64(text[1])[1]

C22_Default == C22_Resolved(process.env.JOBSUCHE_DEFAULT_PAGE_SIZE, 25)

C22_Max == C22_Resolved(process.env.JOBSUCHE_MAX_PAGE_SIZE, 100)

C22_LoadChecksPageSizes ==
    process.phase # "load" =>
        /\ config # None <=> (1 <= C22_Default /\ C22_Default <= C22_Max /\ C22_Max <= 100)
        /\ config = None => process.phase \in {"failed", "exited"} /\ process.error # None
        /\ config # None =>
              /\ config.default_page_size = C22_Default
              /\ config.max_page_size = C22_Max
              /\ 1 <= config.default_page_size
              /\ config.default_page_size <= config.max_page_size
              /\ config.max_page_size <= 100

\* "+5" and an unparsable maximum load as 5 and 100
C22_Witness ==
    /\ process.env.JOBSUCHE_DEFAULT_PAGE_SIZE = Some(<<"+", "5">>)
    /\ process.env.JOBSUCHE_MAX_PAGE_SIZE = Some(<<"a", "b", "c">>)
    /\ process.phase = "validate"
    /\ config.default_page_size = 5 /\ config.max_page_size = 100

\* a default of 0 is refused
C22_ZeroDefaultWitness ==
    /\ process.env.JOBSUCHE_DEFAULT_PAGE_SIZE = Some(<<"0">>)
    /\ process.phase = "failed" /\ config = None
    /\ process.error = Some("Default page size must be greater than 0")

\* a maximum of 0, a default above the maximum and a maximum above 100 are refused
C22_ZeroMaxWitness ==
    /\ process.env.JOBSUCHE_MAX_PAGE_SIZE = Some(<<"0">>)
    /\ process.phase = "failed" /\ config = None
    /\ process.error = Some("Max page size must be greater than 0")

C22_DefaultAboveMaxWitness ==
    /\ process.env.JOBSUCHE_DEFAULT_PAGE_SIZE = Some(<<"5", "0">>)
    /\ process.env.JOBSUCHE_MAX_PAGE_SIZE = Some(<<"2", "5">>)
    /\ process.phase = "failed" /\ config = None

C22_MaxAboveLimitWitness ==
    /\ process.env.JOBSUCHE_DEFAULT_PAGE_SIZE = None
    /\ process.env.JOBSUCHE_MAX_PAGE_SIZE = Some(<<"1", "0", "1">>)
    /\ process.phase = "failed" /\ config = None
    /\ process.error = Some("Max page size cannot exceed 100 (API limitation)")

(***************************************************************************)
(* C23: a configuration error aborts startup.  When load fails or the API  *)
(* URL is empty or starts with neither http:// nor https://, no API client *)
(* is ever created and the process ends without accepting a request; a     *)
(* non-empty URL that starts with http:// or https:// passes validate, so  *)
(* that with valid page sizes only the creation of the client can fail.    *)
(***************************************************************************)
C23_Url == IF process.env.JOBSUCHE_API_URL = None THEN DefaultApiUrl
           ELSE process.env.JOBSUCHE_API_URL[1]

C23_UrlAccepted ==
    /\ C23_Url # << >>
    /\ \/ Len(C23_Url) >= 7 /\ SubSeq(C23_Url, 1, 7) = <<"h", "t", "t", "p", ":", "/", "/">>
       \/ Len(C23_Url) >= 8
            /\ SubSeq(C23_Url, 1, 8) = <<"h", "t", "t", "p", "s", ":", "/", "/">>

C23_PageSizesAccepted == Load(process.env).ok

C23_NothingServed ==
    /\ pc = "idle" /\ request = NoRequest
    /\ call = None /\ calls = << >> /\ outcome = None

C23_ConfigErrorAbortsStartup ==
    /\ ~(C23_PageSizesAccepted /\ C23_UrlAccepted) =>
          /\ process.phase \in {"load", "validate", "failed", "exited"}
          /\ process.client = None /\ process.start_time = None
          /\ C23_NothingServed
    /\ process.phase \in {"failed", "exited"} =>
          /\ process.error # None
          /\ process.client = None
          /\ C23_NothingServed
    /\ (C23_PageSizesAccepted /\ C23_UrlAccepted /\ process.phase \in {"failed", "exited"})
          => process.error = Some("client error")
    /\ pc # "idle" => process.phase = "serving" /\ process.client # None

\* an ftp URL: validate failed and the process exited without a client
C23_Witness ==
    /\ process.env.JOBSUCHE_API_URL = Some(<<"f", "t", "p", ":", "/", "/", "e", "x", "a", "m",
                                              "p", "l", "e", ".", "o", "r", "g">>)
    /\ process.phase = "exited"
    /\ process.error = Some("API URL must start with http:// or https://")
    /\ process.client = None
    /\ C23_NothingServed

\* the URL "https://" passed validate and the server answered a request
C23_AcceptedWitness ==
    /\ process.env.JOBSUCHE_API_URL = Some(<<"h", "t", "t", "p", "s", ":", "/", "/">>)
    /\ process.phase = "serving" /\ process.client # None
    /\ Done

(***************************************************************************)
(* C24: within one request the upstream calls are sequential and ordered.  *)
(* Only the last call issued can be outstanding; every detail lookup       *)
(* follows an answered search of its own item with nothing but detail      *)
(* lookups of that search in between; a batch issues the search of an      *)
(* item only after every call of the items before it has returned; a       *)
(* failed search is followed by no detail lookup.                          *)
(***************************************************************************)
C24_CallsSequential ==
    /\ \A k \in 1..(Len(calls) - 1) : calls[k].reply # "pending"
    /\ call # None <=> (calls # << >> /\ calls[Len(calls)].reply = "pending")
    /\ call # None => call = Some(calls[Len(calls)])
    /\ (IsWithDetails \/ IsBatch) =>
          /\ calls # << >> => calls[1].kind = "search"
          /\ \A k \in 2..Len(calls) :
                /\ calls[k].kind = "detail" =>
                      /\ calls[k - 1].item = calls[k].item
                      /\ calls[k - 1].reply # "pending"
                      /\ calls[k - 1].kind = "search" => calls[k - 1].reply = "ok"
                /\ calls[k].kind = "search" =>
                      /\ IsBatch
                      /\ calls[k].item > calls[k - 1].item
                      /\ calls[k - 1].reply # "pending"
          /\ \A j \in 1..Len(calls) :
                (calls[j].kind = "search" /\ calls[j].reply = "err") =>
                    \A k \in 1..Len(calls) :
                       calls[k].kind = "detail" => calls[k].item # calls[j].item

\* a batch: search 1 answered, two lookups, search 2 failed, search 3 answered, two lookups
C24_Witness ==
    /\ IsBatch /\ Done
    /\ Len(calls) = 7
    /\ [k \in 1..7 |-> calls[k].kind]
          = <<"search", "detail", "detail", "search", "search", "detail", "detail">>
    /\ [k \in 1..7 |-> calls[k].item] = <<1, 1, 1, 2, 3, 3, 3>>
    /\ calls[4].reply = "err"

(***************************************************************************)
(* C25  Invocations in flight together on one server are independent.      *)
(***************************************************************************)
\* the details a handler running alone collects from the lookups cs:
\* one entry per answered lookup, in the order of the lookups
C25_Collected(cs) ==
    [k \in 1..Len(Answered(cs)) |->
        ToJobDetailsResult(Answered(cs)[k].reference_number,
                           UpstreamDetails(Answered(cs)[k].reference_number))]

\* the entry a batch running alone reports for its i-th item
C25_AloneItem(i) ==
    IF SearchCalls[i].reply = "err"
    THEN [search_name |-> request.params.searches[i].name,
          total_results |-> None, jobs_count |-> 0, jobs |-> << >>,
          error |-> Some("Search failed: " \o upstream.error)]
    ELSE [search_name |-> request.params.searches[i].name,
          total_results |-> ToSearchJobsResult(upstream.response).total_results,
          jobs_count |-> Len(C25_Collected(DetailCallsOf(i))),
          jobs |-> C25_Collected(DetailCallsOf(i)),
          error |-> None]

\* what the invocation returns when it runs alone and the upstream replies
\* to its calls as recorded in its own calls
C25_AloneOutcome ==
    CASE op = "search_jobs" ->
           IF calls[1].reply = "ok" THEN Ok(ToSearchJobsResult(upstream.response))
           ELSE Err(upstream.error)
      [] op = "get_job_details" ->
           IF calls[1].reply = "ok"
           THEN Ok(ToJobDetailsResult(request.params.reference_number,
                                      UpstreamDetails(request.params.reference_number)))
           ELSE Err(upstream.error)
      [] op = "search_jobs_with_details" ->
           IF calls[1].reply = "ok"
           THEN Ok([total_results |-> ToSearchJobsResult(upstream.response).total_results,
                    current_page |-> ToSearchJobsResult(upstream.response).current_page,
                    page_size |-> ToSearchJobsResult(upstream.response).page_size,
                    jobs_count |-> Len(C25_Collected(DetailCalls)),
                    jobs |-> C25_Collected(DetailCalls)])
           ELSE Err(upstream.error)
      [] op = "batch_search_jobs" ->
           Ok([searches_count |-> Len(SearchCalls),
               results |-> [i \in 1..Len(SearchCalls) |-> C25_AloneItem(i)]])
      [] op = "get_server_status" ->
           Ok(ServerStatus(IF calls[1].reply = "ok" THEN "Connected"
                           ELSE "Connection Error: " \o upstream.error,
                           Returned.value.uptime_seconds))

\* the lookups the invocation issues when it runs alone: for every answered
\* search the first max_details postings of the response, in upstream order
C25_AloneLookups ==
    CASE op = "search_jobs" -> Len(calls) = 1 /\ DetailCalls = << >>
      [] op = "get_server_status" -> Len(calls) = 1 /\ DetailCalls = << >>
      [] op = "get_job_details" ->
           /\ Len(calls) = 1
           /\ CallRefs(DetailCalls) = <<request.params.reference_number>>
      [] op = "search_jobs_with_details" ->
           /\ Len(SearchCalls) = 1
           /\ CallRefs(DetailCalls) =
                 IF calls[1].reply = "ok" THEN Take(UpstreamRefs, max_details) ELSE << >>
      [] op = "batch_search_jobs" ->
           /\ Len(SearchCalls) = searches_count
           /\ \A i \in 1..Len(SearchCalls) :
                 CallRefs(DetailCallsOf(i)) =
                    IF SearchCalls[i].reply = "ok" THEN Take(UpstreamRefs, max_details)
                    ELSE << >>

\* the running invocation, once finished, has issued the calls and returned
\* the result of a run alone; every parked invocation is the running one in
\* the state one Switch away
C25_SameAsAlone == Done => (C25_AloneLookups /\ Returned = C25_AloneOutcome)

\* a step writes neither the config, the process (client, start time) nor the
\* upstream, and it leaves every parked invocation as it was: parked changes
\* only by exchanging the running invocation for a parked one, both intact
C25_NoSharedWrites ==
    /\ config' = config
    /\ process' = process
    /\ upstream' = upstream
    /\ \/ parked' = parked
       \/ \E k \in 1..Len(parked) :
             /\ parked' = [parked EXCEPT ![k] = Running]
             /\ Running' = parked[k]

\* C25: for any interleaving of the invocations in flight on one server, no
\* step of an invocation writes the config, the start time or the state of
\* another invocation, and every invocation returns what it returns alone
\* against the same upstream replies.
C25_RequestsIndependent == []C25_SameAsAlone /\ [][C25_NoSharedWrites]_vars

\* a with-details invocation has returned one posting while a batch on the
\* same server waits for the upstream with a lookup of its own in flight
C25_Witness ==
    /\ Done /\ IsWithDetails /\ Returned.ok /\ Returned.value.jobs_count = 1
    /\ Len(parked) = 1
    /\ parked[1].request.op = "batch_search_jobs"
    /\ parked[1].pc = "detail_wait"
    /\ parked[1].call # None

\* two invocations that both collected details have both returned
C25_BothReturnedWitness ==
    /\ Done /\ IsBatch /\ Returned.value.results[1].jobs_count = 1
    /\ Len(parked) = 1
    /\ parked[1].request.op = "search_jobs_with_details"
    /\ parked[1].pc = "done"
    /\ parked[1].outcome[1].ok
    /\ parked[1].outcome[1].value.jobs_count = 1

(***************************************************************************)
(* C26  The page size of a batch's searches is its detail limit.           *)
(***************************************************************************)
\* the detail limit L of the batch: max_details_per_search, 3 when absent,
\* at most 10
C26_L ==
    LET asked == request.params.max_details_per_search IN
    Min(IF asked = None THEN BatchDefaultMaxDetails ELSE asked[1], BatchMaxDetailsCap)

C26_ClampedWitness ==
    /\ Done /\ IsBatch /\ C26_L = BatchMaxDetailsCap
    /\ config.max_page_size < C26_L
    /\ Len(SearchCalls) >= 1
    /\ SearchCalls[1].options.size = Some(config.max_page_size)

(***************************************************************************)
(* C27  contract_type does not reach the upstream query.                   *)
(***************************************************************************)
\* the search parameters of the request the call c was issued for
C27_ParamsOf(c) ==
    IF IsBatch THEN request.params.searches[c.item] ELSE request.params

\* the query the handler sends for the same request without a contract type
C27_QueryWithout(c) ==
    LET p == C27_ParamsOf(c)
        blank == [job_title |-> p.job_title, location |-> p.location,
                  radius_km |-> p.radius_km, employment_type |-> p.employment_type,
                  contract_type |-> None,
                  published_since_days |-> p.published_since_days,
                  page_size |-> IF IsBatch THEN Some(max_details) ELSE p.page_size,
                  page |-> IF IsBatch THEN None ELSE p.page,
                  employer |-> p.employer, branch |-> p.branch]
    IN  BuildSearchOptions(blank, config)

C27_SearchJobsWitness ==
    /\ Done /\ op = "search_jobs"
    /\ request.params.contract_type = Some(<<"permanent", "temporary">>)
    /\ request.params.job_title = None
    /\ SearchCalls[1].options.was = None

\* search_jobs_with_details with a contract type has returned
C27_WithDetailsWitness ==
    /\ Done /\ IsWithDetails /\ Returned.ok
    /\ request.params.contract_type = Some(<<"temporary">>)
    /\ SearchCalls[1].options.was = Some("Engineer")

(***************************************************************************)
(* C28  The counts of a result are the lengths of its lists.               *)
(***************************************************************************)
\* the detail limit of the request
C28_Limit ==
    IF IsBatch
    THEN Min(IF request.params.max_details_per_search = None THEN BatchDefaultMaxDetails
             ELSE request.params.max_details_per_search[1], BatchMaxDetailsCap)
    ELSE Min(IF request.params.max_details = None THEN DefaultMaxDetails
             ELSE request.params.max_details[1], MaxDetailsCap)

\* the number of summaries of an answered search
C28_Summaries == Len(upstream.response.stellenangebote)

\* C28: in every result returned by search_jobs, search_jobs_with_details
\* and batch_search_jobs each jobs_count is the length of the jobs beside it
\* and searches_count the length of results; in with-details and batch
\* results jobs_count is the number of details fetched, at most
\* min(limit, number of summaries).
C28_CountsAreLengths ==
    (Done /\ Returned.ok) =>
       CASE op = "search_jobs" ->
              /\ Returned.value.jobs_count = Len(Returned.value.jobs)
              /\ Returned.value.jobs_count = C28_Summaries
         [] op = "search_jobs_with_details" ->
              /\ Returned.value.jobs_count = Len(Returned.value.jobs)
              /\ Returned.value.jobs_count = Len(Answered(DetailCalls))
              /\ Returned.value.jobs_count <= Min(C28_Limit, C28_Summaries)
         [] op = "batch_search_jobs" ->
              /\ Returned.value.searches_count = Len(Returned.value.results)
              /\ \A k \in 1..Len(Returned.value.results) :
                    LET r == Returned.value.results[k] IN
                    /\ r.jobs_count = Len(r.jobs)
                    /\ r.jobs_count = Len(Answered(DetailCallsOf(k)))
                    /\ r.jobs_count <= Min(C28_Limit, C28_Summaries)
         [] OTHER -> TRUE

\* with-details returned fewer details than the search had summaries and than
\* the limit admits: a lookup failed
C28_Witness ==
    /\ Done /\ IsWithDetails /\ Returned.ok
    /\ C28_Summaries = 3
    /\ C28_Limit = 2
    /\ Returned.value.jobs_count = 1
    /\ Len(Returned.value.jobs) = 1

\* a batch of three: one item failed, one fetched every detail the limit admits
C28_BatchWitness ==
    /\ Done /\ IsBatch
    /\ Returned.value.searches_count = 3
    /\ Returned.value.results[1].jobs_count = 0
    /\ Returned.value.results[1].error # None
    /\ Returned.value.results[2].jobs_count = 1
    /\ C28_Limit = 1
    /\ C28_Summaries = 3

(***************************************************************************)
(* C29  The location of a job detail comes from the first work location.   *)
(***************************************************************************)
\* the work locations of the upstream record of a reference number
C29_WorkLocations(refnr) == UpstreamDetails(refnr).arbeitsorte

\* the location the first work location alone determines
C29_LocationOfFirst(locs) ==
    CASE locs = << >> -> None
      [] locs[1].adresse = None -> None
      [] locs[1].adresse[1].ort = None -> None
      [] locs[1].adresse[1].plz = None -> Some(locs[1].adresse[1].ort[1])
      [] OTHER -> Some(locs[1].adresse[1].ort[1] \o " ("
                         \o locs[1].adresse[1].plz[1] \o ")")

\* C29: the location of a job detail is absent when the upstream record has
\* no work location, or its first work location has no address or no ort
\* (with or without a postal code); otherwise it is "ort (plz)" with a postal
\* code and "ort" without; work locations after the first never matter.
C29_DetailLocationFromFirst ==
    (Done /\ Returned.ok) =>
       CASE op = "get_job_details" ->
              Returned.value.location =
                 C29_LocationOfFirst(C29_WorkLocations(request.params.reference_number))
         [] op = "search_jobs_with_details" ->
              \A k \in 1..Len(Returned.value.jobs) :
                 Returned.value.jobs[k].location =
                    C29_LocationOfFirst(
                       C29_WorkLocations(Returned.value.jobs[k].reference_number))
         [] OTHER -> TRUE

\* the first work location has a postal code and no ort, a later one has both:
\* the detail has no location
C29_Witness ==
    /\ Done /\ op = "get_job_details" /\ Returned.ok
    /\ Len(upstream.details.arbeitsorte) = 2
    /\ upstream.details.arbeitsorte[1].adresse = Some([ort |-> None, plz |-> Some("10115")])
    /\ upstream.details.arbeitsorte[2].adresse =
          Some([ort |-> Some("Bonn"), plz |-> Some("53111")])
    /\ Returned.value.location = None

\* the first work location has both: "ort (plz)", whatever follows
C29_ComposedWitness ==
    /\ Done /\ op = "get_job_details" /\ Returned.ok
    /\ Len(upstream.details.arbeitsorte) = 3
    /\ Returned.value.location = Some("Berlin (10115)")

\* the first work location has an ort and no postal code: "ort"
C29_OrtOnlyWitness ==
    /\ Done /\ op = "get_job_details" /\ Returned.ok
    /\ Len(upstream.details.arbeitsorte) = 1
    /\ Returned.value.location = Some("Berlin")

\* no work location at all
C29_NoLocationWitness ==
    /\ Done /\ op = "get_job_details" /\ Returned.ok
    /\ upstream.details.arbeitsorte = << >>
    /\ Returned.value.location = None

(***************************************************************************)
(* C30  with-details and batch invocations terminate.                      *)
(***************************************************************************)
\* the number of searches the request admits
C30_ItemLimit == IF IsBatch THEN Min(Len(request.params.searches), MaxBatchSearches) ELSE 1

\* the number of lookups the request admits per search
C30_DetailLimit ==
    IF IsBatch
    THEN Min(IF request.params.max_details_per_search = None THEN BatchDefaultMaxDetails
             ELSE request.params.max_details_per_search[1], BatchMaxDetailsCap)
    ELSE Min(IF request.params.max_details = None THEN DefaultMaxDetails
             ELSE request.params.max_details[1], MaxDetailsCap)

\* the item a call belongs to, counting the only search of with-details as 1
C30_ItemOf(c) == IF IsBatch THEN c.item ELSE 1

\* the handler has returned a result or an error
C30_Finished == Done /\ outcome # None

\* at most one search per item, at most the detail limit of lookups per item
C30_CallsBounded ==
    /\ Len(SearchCalls) <= C30_ItemLimit
    /\ Len(DetailCalls) <= C30_ItemLimit * C30_DetailLimit
    /\ Len(calls) <= C30_ItemLimit * (1 + C30_DetailLimit)
    /\ \A i \in 1..C30_ItemLimit :
          /\ Len(SelectSeq(SearchCalls, LAMBDA c : C30_ItemOf(c) = i)) <= 1
          /\ Len(SelectSeq(DetailCalls, LAMBDA c : C30_ItemOf(c) = i)) <= C30_DetailLimit

\* the calls go forward: item after item, and inside an item the search
\* first and then the postings of the response in order, each one once,
\* failed or not
C30_NothingReissued ==
    /\ \A k \in 1..(Len(calls) - 1) : C30_ItemOf(calls[k]) <= C30_ItemOf(calls[k + 1])
    /\ \A k \in 2..Len(calls) :
          calls[k].kind = "search" => C30_ItemOf(calls[k - 1]) < C30_ItemOf(calls[k])
    /\ \A i \in 1..C30_ItemLimit :
          IsPrefix(CallRefs(SelectSeq(DetailCalls, LAMBDA c : C30_ItemOf(c) = i)),
                   UpstreamRefs)

\* a step never takes a call back nor changes an answered one
C30_CallsOnlyGrow ==
    /\ Len(calls') >= Len(calls)
    /\ \A k \in 1..Len(calls) :
          calls[k].reply # "pending" => calls'[k] = calls[k]

\* C30: provided every upstream search and lookup eventually returns,
\* answered or failed, every invocation of search_jobs_with_details and
\* batch_search_jobs ends with a result; it issues at most one search per
\* item and at most the detail limit of lookups per item, and after a failure
\* it goes on with the next posting or item: no call is issued again and the
\* loop never starts over.
C30_Terminates ==
    /\ <>C30_Finished
    /\ [](C30_CallsBounded /\ C30_NothingReissued)
    /\ [][C30_CallsOnlyGrow]_vars

\* a batch of two has returned although its first search and lookups of its
\* second item failed
C30_Witness ==
    /\ C30_Finished /\ IsBatch
    /\ Len(SearchCalls) = 2
    /\ SearchCalls[1].reply = "err"
    /\ SearchCalls[2].reply = "ok"
    /\ Len(Failed(DetailCalls)) >= 2
    /\ Len(DetailCalls) = C30_DetailLimit
    /\ Len(Returned.value.results) = 2

\* with-details has returned after every one of its lookups failed
C30_AllFailedWitness ==
    /\ C30_Finished /\ IsWithDetails /\ Returned.ok
    /\ Len(DetailCalls) = DefaultMaxDetails
    /\ Failed(DetailCalls) = DetailCalls
    /\ Returned.value.jobs = << >>

====
